---- MODULE Spec2Model ----
(***************************************************************************)
(* A model of the notary back-office API (gsarta/notary-backend).          *)
(*                                                                         *)
(* The committed contents of the relational store are the state; every     *)
(* service call is an action built from the repository steps it makes,    *)
(* each of which commits (or rolls back) on its own, as in the source.     *)
(***************************************************************************)
EXTENDS Integers, Sequences, FiniteSets, TLC

\* ------------------------------------------------------------------ bounds
NumAgents == 2
NumNames == 2
NumTemplates == 1
NumSections == 2
MaxOrderIndex == 1
MaxDocs == 1
MaxTokens == 3
MaxAudioMs == 12
MaxSegmentMs == 6

AgentIds == 1..NumAgents
AgentNames == 1..NumNames
NoAgent == 0

VARIABLES
    agents,     \* table notary.ai_agent_configurations: agent_id -> row
    last,       \* the last completed AI-agent request: what was asked, what came back
    reqs,       \* AI-agent requests in flight, one record per worker
    templates,      \* table notary.templates: template_id -> row
    sections,       \* table notary.template_sections: section_id -> row
    compositions,   \* table notary.template_sections_composition: set of rows
    documents,      \* table notary.documents: document_id -> row
    lastT,          \* the last completed template/composition/document request
    tokens,         \* the pieces a document text is written from
    content,        \* the text handed to _replace_placeholders
    dynamic_data,   \* the data map handed to _replace_placeholders
    replaced,       \* what _replace_placeholders returned
    audio_len,              \* len(audio), in milliseconds
    segment_duration_ms,    \* the segment duration handed to the splitter
    processed_segments,     \* the lengths of the chunks the splitter returned
    tcall,          \* the transcribe_audio call in flight, or the last one made
    temp_files,     \* the staged audio files that exist on the local disk
    outbound,       \* the outbound calls the current transcribe_audio call made
    transcriptions,  \* table notary.transcriptions: the rows, in insertion order
    roles,     \* table notary.roles: role_id -> row
    users,     \* table notary.users: user_id -> row
    now,     \* the clock read by the created_at / updated_at defaults
    lastU,     \* the last completed roles/users request
    document_types,     \* table notary.document_types: document_type_id -> row
    lastD,     \* the last completed document-type request
    creating,     \* create_document_type requests in flight, one record per worker
    session,     \* the Flask session of the browser: access_token, refresh_token, next_url
    lastO,     \* the last response of /login or /oidc_callback
    db_sessions,     \* the database sessions created so far, in creation order
    http,     \* the HTTP request each worker is serving
    registry,     \* the scoped-session registry behind db.session: scope -> session
    served     \* the number of requests begun so far

agentVars == <<agents, last>>
templateVars == <<templates, sections, compositions, documents, lastT>>
substVars == <<tokens, content, dynamic_data, replaced>>
audioVars == <<audio_len, segment_duration_ms, processed_segments>>
pipelineVars == <<tcall, temp_files, outbound, transcriptions>>
directoryVars == <<roles, users, now, lastU>>
documentTypeVars == <<document_types, lastD, creating>>
oidcVars == <<session, lastO>>
sessionVars == <<db_sessions, http, registry, served>>
extraVars == <<pipelineVars, directoryVars, documentTypeVars, oidcVars, sessionVars>>
vars == <<agents, last, reqs, templates, sections, compositions, documents,
          lastT, tokens, content, dynamic_data, replaced, audio_len,
          segment_duration_ms, processed_segments, tcall, temp_files,
          outbound, transcriptions,
          roles, users, now, lastU,
          document_types, lastD, creating,
          session, lastO,
          db_sessions, http, registry, served>>

\* =====================================================================
\* AI agent configurations: table, repository, service, controller
\* =====================================================================

\* A row of the table (the columns the default-agent bookkeeping reads).
AgentRow(name, active, default) ==
    [agent_name |-> name, is_active |-> active, is_default |-> default]

\* A request body after schema load: the keys present and their values.
\* An absent key carries a fixed filler value that is never read.
AgentData(keys, name, active, default) ==
    [keys |-> keys,
     agent_name |-> IF "agent_name" \in keys THEN name ELSE 1,
     is_active |-> IF "is_active" \in keys THEN active ELSE FALSE,
     is_default |-> IF "is_default" \in keys THEN default ELSE FALSE]

AgentFields == {"agent_name", "is_active", "is_default"}

\* PATCH bodies (partial=True): any subset of the fields.
UpdateBodies ==
    {AgentData(k, n, a, d) :
        k \in SUBSET AgentFields, n \in AgentNames, a \in BOOLEAN, d \in BOOLEAN}

\* POST bodies: agent_name is required, is_active and is_default are filled in
\* by the schema (missing=True, missing=False), so all three keys are present.
CreateBodies ==
    {AgentData(AgentFields, n, a, d) :
        n \in AgentNames, a \in BOOLEAN, d \in BOOLEAN}

\* ExcludeConstraint(is_default WITH =) WHERE is_default = TRUE: no two rows
\* of the table have is_default = TRUE (whatever their is_active).
ExclusionConstraintMissing(db) == TRUE

ExclusionConstraint(db) ==
    Cardinality({i \in DOMAIN db : db[i].is_default}) <= 1

\* agent_name is UNIQUE.
AgentNameUnique(db) ==
    \A i, j \in DOMAIN db : i # j => db[i].agent_name # db[j].agent_name

\* session.commit(): the store accepts the transaction iff its constraints
\* (the exclusion constraint is DEFERRED to this point) hold of the result.
CommitAccepts(db) == AgentNameUnique(db) /\ ExclusionConstraint(db)

\* AIAgentConfigurationRepository.unset_all_defaults
unset_all_defaults(db) ==
    [i \in DOMAIN db |-> [db[i] EXCEPT !.is_default = FALSE]]

\* AIAgentConfigurationRepository.create
repo_create(db, id, data) ==
    LET row == AgentRow(data.agent_name, data.is_active, data.is_default)
        new == [i \in DOMAIN db \cup {id} |-> IF i = id THEN row ELSE db[i]]
    IN  IF CommitAccepts(new)
        THEN [db |-> new, exc |-> "none"]
        ELSE [db |-> db, exc |-> "RuntimeError"]

\* setattr(agent, key, value) for every key of the body
ApplyAgentPatch(row, data) ==
    [agent_name |-> IF "agent_name" \in data.keys THEN data.agent_name ELSE row.agent_name,
     is_active |-> IF "is_active" \in data.keys THEN data.is_active ELSE row.is_active,
     is_default |-> IF "is_default" \in data.keys THEN data.is_default ELSE row.is_default]

\* AIAgentConfigurationRepository.update
repo_update(db, id, data) ==
    IF id \notin DOMAIN db
    THEN [db |-> db, exc |-> "none", found |-> FALSE]
    ELSE LET new == [db EXCEPT ![id] = ApplyAgentPatch(db[id], data)]
         IN  IF CommitAccepts(new)
             THEN [db |-> new, exc |-> "none", found |-> TRUE]
             ELSE [db |-> db, exc |-> "RuntimeError", found |-> TRUE]

\* AIAgentConfigurationRepository.delete
repo_delete(db, id) ==
    IF id \in DOMAIN db
    THEN [db |-> [i \in DOMAIN db \ {id} |-> db[i]], exc |-> "none", found |-> TRUE]
    ELSE [db |-> db, exc |-> "none", found |-> FALSE]

\* The query for all active agents other than the target.
ActiveOthers(db, id) == {j \in DOMAIN db \ {id} : db[j].is_active}

\* update_agent's choice of the agent to promote.  The query has no ORDER BY,
\* so any row may come first: the loop takes the first non-default row, and
\* when every row is already default the fallback takes all_active_agents[0].
UpdatePromotionChoices(db, id) ==
    LET others == ActiveOthers(db, id)
        nonDefault == {j \in others : ~db[j].is_default}
    IN  IF nonDefault # {} THEN nonDefault ELSE others

\* delete_agent's choice: all_active_agents[0], in any order of the result.
DeletePromotionChoices(db, id) == ActiveOthers(db, id)

\* other_agent.is_default = True; session.add; db_session.commit()
promote(db, j) ==
    LET new == [db EXCEPT ![j].is_default = TRUE]
    IN  IF CommitAccepts(new)
        THEN [db |-> new, exc |-> "none"]
        ELSE [db |-> db, exc |-> "IntegrityError"]

\* What a service call returns: the store afterwards, the exception raised
\* ("none" if it returned), whether the target was found, and the agent whose
\* promotion was committed (NoAgent if none was).
Outcome(db, exc, found, promoted) ==
    [db |-> db, exc |-> exc, found |-> found, promoted |-> promoted]

\* AIAgentConfigurationService.create_agent: the possible outcomes.
create_agent(db, id, data) ==
    LET cleared == IF data.is_default THEN unset_all_defaults(db) ELSE db
        r == repo_create(cleared, id, data)
    IN  {Outcome(r.db, r.exc, TRUE, NoAgent)}

\* The tail of update_agent: repo.update of the target.
UpdateTarget(db, id, data, promoted) ==
    LET r == repo_update(db, id, data)
    IN  Outcome(r.db, r.exc, r.found, promoted)

\* AIAgentConfigurationService.update_agent: the possible outcomes.
update_agent(db, id, data) ==
    IF id \notin DOMAIN db
    THEN {Outcome(db, "none", FALSE, NoAgent)}
    ELSE IF "is_default" \in data.keys /\ data.is_default /\ ~db[id].is_default
    THEN {UpdateTarget(unset_all_defaults(db), id, data, NoAgent)}
    ELSE IF "is_default" \in data.keys /\ ~data.is_default /\ db[id].is_default
    THEN IF ActiveOthers(db, id) = {}
         THEN {Outcome(db, "ValueError", TRUE, NoAgent)}
         ELSE {LET p == promote(db, j)
               IN  IF p.exc # "none"
                   THEN Outcome(p.db, p.exc, TRUE, NoAgent)
                   ELSE UpdateTarget(p.db, id, data, j)
               : j \in UpdatePromotionChoices(db, id)}
    ELSE {UpdateTarget(db, id, data, NoAgent)}

\* The tail of delete_agent: repo.delete of the target.
DeleteTarget(db, id, promoted) ==
    LET r == repo_delete(db, id)
    IN  Outcome(r.db, r.exc, r.found, promoted)

\* AIAgentConfigurationService.delete_agent: the possible outcomes.
delete_agent(db, id) ==
    IF id \in DOMAIN db /\ db[id].is_default
    THEN IF ActiveOthers(db, id) = {}
         THEN {Outcome(db, "ValueError", TRUE, NoAgent)}
         ELSE {LET p == promote(db, j)
               IN  IF p.exc # "none"
                   THEN Outcome(p.db, p.exc, TRUE, NoAgent)
                   ELSE DeleteTarget(p.db, id, j)
               : j \in DeletePromotionChoices(db, id)}
    ELSE {DeleteTarget(db, id, NoAgent)}

\* Controller status codes.  An exception without a .messages attribute
\* (ValueError, RuntimeError, IntegrityError) is answered 500.
CreateStatus(o) == IF o.exc # "none" THEN 500 ELSE 201
UpdateStatus(o) == IF o.exc # "none" THEN 500 ELSE IF o.found THEN 200 ELSE 404
DeleteStatus(o) == IF o.exc # "none" THEN 500 ELSE IF o.found THEN 204 ELSE 404

NoData == AgentData({}, 1, FALSE, FALSE)

Completed(op, id, data, before, o, status) ==
    [op |-> op, id |-> id, data |-> data, before |-> before,
     exc |-> o.exc, status |-> status, promoted |-> o.promoted]

InitAgents ==
    /\ agents = << >>
    /\ last = [op |-> "none", id |-> NoAgent, data |-> NoData, before |-> << >>,
               exc |-> "none", status |-> 0, promoted |-> NoAgent]

InitReqsIdle == reqs = << >>

NoRequest ==
    [op |-> "none", status |-> 0, exc |-> "none", id |-> 0, order_index |-> 0,
     used |-> FALSE, unchanged |-> TRUE]

InitTemplates ==
    /\ templates = << >>
    /\ sections = << >>
    /\ compositions = {}
    /\ documents = << >>
    /\ lastT = NoRequest

NotReplaced == [done |-> FALSE, text |-> << >>]

InitSubstIdle ==
    /\ tokens = << >>
    /\ content = << >>
    /\ dynamic_data = << >>
    /\ replaced = NotReplaced

NotSplit == [returned |-> FALSE, exc |-> "none", chunks |-> << >>]

InitAudioIdle ==
    /\ audio_len = 0
    /\ segment_duration_ms = 1
    /\ processed_segments = NotSplit

NoCall ==
    [pc |-> "idle", n |-> 0, filename |-> FALSE, agent_id |-> 0,
     audio |-> [decodes |-> FALSE, len |-> 0],
     selected |-> 0, segment |-> 0, chunks |-> << >>, parts |-> << >>,
     temp |-> 0, exc |-> "none", status |-> 0, row |-> 0]

NoOutbound == [uploads |-> 0, speech |-> << >>]

InitPipelineIdle ==
    /\ tcall = NoCall
    /\ temp_files = {}
    /\ outbound = NoOutbound
    /\ transcriptions = << >>

NoDirectoryRequest ==
    [op |-> "none", id |-> 0, exc |-> "none", status |-> 0, found |-> {},
     resolved |-> FALSE]

InitDirectoryIdle ==
    /\ roles = << >>
    /\ users = << >>
    /\ now = 0
    /\ lastU = NoDirectoryRequest

NoDocumentTypeRequest ==
    [op |-> "none", exc |-> "none", message |-> "none", status |-> 0, id |-> 0,
     type_name |-> ""]

InitDocumentTypesIdle ==
    /\ document_types = << >>
    /\ lastD = NoDocumentTypeRequest
    /\ creating = << >>

NoSessionValue == [some |-> FALSE, v |-> ""]

EmptySession ==
    [access_token |-> NoSessionValue, refresh_token |-> NoSessionValue,
     next_url |-> NoSessionValue]

NoResponse ==
    [op |-> "none", code |-> NoSessionValue, status |-> 0, body |-> "", location |-> "",
     stashed |-> NoSessionValue]

InitOidcIdle ==
    /\ session = EmptySession
    /\ lastO = NoResponse

NoHttpRequest == [pc |-> "idle", id |-> 0, group |-> "none", g_db_session |-> 0, failed |-> FALSE]

InitSessionsIdle ==
    /\ db_sessions = << >>
    /\ http = << >>
    /\ registry = << >>
    /\ served = 0

InitExtraIdle == InitPipelineIdle /\ InitDirectoryIdle /\ InitDocumentTypesIdle /\ InitOidcIdle /\ InitSessionsIdle

\* default=uuid.uuid4: a fresh agent_id.  Identifiers are opaque, so the
\* least unused one stands for any of them.
FreshAgentId(db) == CHOOSE i \in AgentIds \ DOMAIN db :
                        \A j \in AgentIds \ DOMAIN db : i <= j

\* POST /api/ai_agents/
create_ai_agent ==
    \E data \in CreateBodies :
        /\ AgentIds \ DOMAIN agents # {}
        /\ LET id == FreshAgentId(agents) IN
            \E o \in create_agent(agents, id, data) :
                /\ agents' = o.db
                /\ last' = Completed("create", id, data, agents, o, CreateStatus(o))
                /\ UNCHANGED <<reqs, templateVars, substVars, audioVars, extraVars>>

\* PUT|PATCH /api/ai_agents/<agent_id>
update_ai_agent ==
    \E id \in AgentIds, data \in UpdateBodies :
        \E o \in update_agent(agents, id, data) :
            /\ agents' = o.db
            /\ last' = Completed("update", id, data, agents, o, UpdateStatus(o))
            /\ UNCHANGED <<reqs, templateVars, substVars, audioVars, extraVars>>

\* DELETE /api/ai_agents/<agent_id>
delete_ai_agent ==
    \E id \in AgentIds :
        \E o \in delete_agent(agents, id) :
            /\ agents' = o.db
            /\ last' = Completed("delete", id, NoData, agents, o, DeleteStatus(o))
            /\ UNCHANGED <<reqs, templateVars, substVars, audioVars, extraVars>>

Init == InitAgents /\ InitReqsIdle /\ InitExtraIdle /\ InitTemplates /\ InitSubstIdle /\ InitAudioIdle

Next == create_ai_agent \/ update_ai_agent \/ delete_ai_agent

\* One request at a time, each handled to completion.
Spec == Init /\ [][Next]_vars

\* ---------------------------------------------------------------------
\* Two requests at once.  Each request works in its own session; what the
\* other can see of it is what it has committed.  A request is cut at its
\* commits: get_by_id, then the default bookkeeping (unset_all_defaults or
\* the promotion), then the repository call on the target.
\* ---------------------------------------------------------------------
Workers == {"w1", "w2"}

\* The bodies whose default flag is set: the ones the bookkeeping acts on.
DefaultBodies ==
    {AgentData(k, n, FALSE, d) :
        k \in {{"is_default"}, {"is_default", "agent_name"}},
        n \in AgentNames, d \in BOOLEAN}

Request(pc, op, id, data, exc, found, promoted) ==
    [pc |-> pc, op |-> op, id |-> id, data |-> data,
     exc |-> exc, found |-> found, promoted |-> promoted]

IdleRequest == Request("idle", "none", NoAgent, NoData, "none", FALSE, NoAgent)

AgentRows == {AgentRow(n, a, d) : n \in AgentNames, a \in BOOLEAN, d \in BOOLEAN}

\* The stores the table can hold: the constraints of the schema.
WellFormedStores ==
    {db \in UNION {[S -> AgentRows] : S \in SUBSET AgentIds} :
        /\ \A i, j \in DOMAIN db : i # j => db[i].agent_name # db[j].agent_name
        /\ \A i, j \in DOMAIN db : db[i].is_default /\ db[j].is_default => i = j}

InitConcurrent ==
    /\ agents \in WellFormedStores
    /\ last = [op |-> "none", id |-> NoAgent, data |-> NoData, before |-> << >>,
               exc |-> "none", status |-> 0, promoted |-> NoAgent]
    /\ reqs = [w \in Workers |-> IdleRequest]
    /\ InitTemplates
    /\ InitSubstIdle
    /\ InitAudioIdle
    /\ InitExtraIdle

\* update_agent up to its first commit: agent = repo.get_by_id(agent_id) and
\* the branch on update_data["is_default"] and agent.is_default.
BeginUpdate(w) ==
    \E id \in AgentIds, data \in DefaultBodies :
        /\ reqs[w].pc = "idle"
        /\ reqs' = [reqs EXCEPT ![w] =
              IF id \notin DOMAIN agents
              THEN Request("done", "update", id, data, "none", FALSE, NoAgent)
              ELSE Request(
                     IF data.is_default /\ ~agents[id].is_default THEN "unset"
                     ELSE IF ~data.is_default /\ agents[id].is_default THEN "promote"
                     ELSE "mutate",
                     "update", id, data, "none", TRUE, NoAgent)]
        /\ UNCHANGED <<agentVars, templateVars, substVars, audioVars, extraVars>>

\* delete_agent up to its first commit.
BeginDelete(w) ==
    \E id \in AgentIds :
        /\ reqs[w].pc = "idle"
        /\ reqs' = [reqs EXCEPT ![w] =
              Request(IF id \in DOMAIN agents /\ agents[id].is_default
                      THEN "promote" ELSE "mutate",
                      "delete", id, NoData, "none", id \in DOMAIN agents, NoAgent)]
        /\ UNCHANGED <<agentVars, templateVars, substVars, audioVars, extraVars>>

\* self.repo.unset_all_defaults(): clears the flags and commits.
StepUnset(w) ==
    /\ reqs[w].pc = "unset"
    /\ agents' = unset_all_defaults(agents)
    /\ reqs' = [reqs EXCEPT ![w].pc = "mutate"]
    /\ UNCHANGED <<last, templateVars, substVars, audioVars, extraVars>>

\* The query for the other active agents, the promotion and its commit.
StepPromote(w) ==
    LET r == reqs[w]
        choices == IF r.op = "update"
                   THEN UpdatePromotionChoices(agents, r.id)
                   ELSE DeletePromotionChoices(agents, r.id)
    IN  /\ r.pc = "promote"
        /\ IF choices = {}
           THEN /\ reqs' = [reqs EXCEPT ![w].pc = "done", ![w].exc = "ValueError"]
                /\ UNCHANGED agents
           ELSE \E j \in choices :
                  LET p == promote(agents, j)
                  IN  /\ agents' = p.db
                      /\ reqs' = [reqs EXCEPT ![w] =
                            IF p.exc # "none"
                            THEN [r EXCEPT !.pc = "done", !.exc = p.exc]
                            ELSE [r EXCEPT !.pc = "mutate", !.promoted = j]]
        /\ UNCHANGED <<last, templateVars, substVars, audioVars, extraVars>>

\* self.repo.update(agent_id, update_data) / self.repo.delete(agent_id)
StepMutate(w) ==
    LET r == reqs[w]
        m == IF r.op = "update" THEN repo_update(agents, r.id, r.data)
             ELSE repo_delete(agents, r.id)
    IN  /\ r.pc = "mutate"
        /\ agents' = m.db
        /\ reqs' = [reqs EXCEPT ![w] =
              [r EXCEPT !.pc = "done", !.exc = m.exc, !.found = m.found]]
        /\ UNCHANGED <<last, templateVars, substVars, audioVars, extraVars>>

NextConcurrent ==
    \E w \in Workers :
        \/ BeginUpdate(w)
        \/ BeginDelete(w)
        \/ StepUnset(w)
        \/ StepPromote(w)
        \/ StepMutate(w)

SpecConcurrent == InitConcurrent /\ [][NextConcurrent]_vars

\* =====================================================================
\* Properties of the AI-agent subsystem
\* =====================================================================

ActiveDefaults(db) == {i \in DOMAIN db : db[i].is_active /\ db[i].is_default}
ActiveAgents(db) == {i \in DOMAIN db : db[i].is_active}

\* C1: after every create_agent, update_agent or delete_agent, whether it
\* returned or raised, at most one stored row is both active and default.
C1_SingleActiveDefault == Cardinality(ActiveDefaults(agents)) <= 1

\* C1's case: an agent was created as default while another active agent was
\* the default; the older one lost the flag and the new one is the only default.
C1_Witness ==
    /\ last.op = "create" /\ last.exc = "none" /\ last.data.is_default
    /\ last.data.is_active
    /\ ActiveDefaults(last.before) # {}
    /\ ActiveDefaults(agents) = {last.id}
    /\ Cardinality(DOMAIN agents) >= 2

\* The request asks to clear the default flag of its target.
UnsetsDefault(data) == "is_default" \in data.keys /\ ~data.is_default

\* C2: when the only active agent is the default, clearing its flag or deleting
\* it is answered 409 (conflict) and the stored rows are as before the call.
C2_OnlyDefaultConflict ==
    (/\ last.op \in {"update", "delete"}
     /\ last.op = "update" => UnsetsDefault(last.data)
     /\ ActiveAgents(last.before) = {last.id}
     /\ last.before[last.id].is_default)
    => (last.status = 409 /\ agents = last.before)

\* C3: update_agent(B, {is_default: false}) on the active default B, with
\* another active agent present, succeeds: B ends non-default and exactly one
\* active agent is the default.
C3_UnsetPromotesAnother ==
    (/\ last.op = "update"
     /\ last.data = AgentData({"is_default"}, 1, FALSE, FALSE)
     /\ last.id \in ActiveDefaults(last.before)
     /\ ActiveOthers(last.before, last.id) # {})
    => (/\ last.exc = "none"
        /\ ~agents[last.id].is_default
        /\ Cardinality(ActiveDefaults(agents)) = 1)

\* C4: delete_agent on the default agent, with another active agent present,
\* promotes that agent and removes the target: the target is gone and exactly
\* one active agent is the default.
C4_DeletePromotesAnother ==
    (/\ last.op = "delete"
     /\ last.id \in DOMAIN last.before
     /\ last.before[last.id].is_default
     /\ ActiveOthers(last.before, last.id) # {})
    => (/\ last.exc = "none"
        /\ last.id \notin DOMAIN agents
        /\ Cardinality(ActiveDefaults(agents)) = 1)

\* C5: a request that raised after its promotion of a replacement default was
\* committed does not leave that promotion in the store.
C5_PromotionNotLeftBehind ==
    \A w \in Workers :
        (/\ reqs[w].pc = "done"
         /\ reqs[w].exc # "none"
         /\ reqs[w].promoted # NoAgent)
        => ~(reqs[w].promoted \in DOMAIN agents /\ agents[reqs[w].promoted].is_default)

\* C6: whatever the interleaving of two requests, no committed state of the
\* table has two rows with is_default = TRUE.
C6_NeverTwoDefaults ==
    \A a, b \in DOMAIN agents :
        a # b => ~(agents[a].is_default /\ agents[b].is_default)

SetsDefaultOnly(r) ==
    r.op = "update" /\ r.data = AgentData({"is_default"}, 1, FALSE, TRUE)

\* C6's case: both requests set a different agent as default; one committed
\* and holds the flag, the other's commit was rejected by the store.
C6_Witness ==
    \E v, w \in Workers :
        /\ v # w
        /\ reqs[v].pc = "done" /\ reqs[w].pc = "done"
        /\ SetsDefaultOnly(reqs[v]) /\ SetsDefaultOnly(reqs[w])
        /\ reqs[v].id # reqs[w].id
        /\ reqs[v].exc = "none" /\ reqs[v].found
        /\ reqs[w].exc = "RuntimeError"
        /\ reqs[v].id \in DOMAIN agents /\ agents[reqs[v].id].is_default
        /\ reqs[w].id \in DOMAIN agents /\ ~agents[reqs[w].id].is_default


\* =====================================================================
\* Text, JSON values and placeholder substitution
\* (src/app/services/document_service.py, _replace_placeholders)
\* =====================================================================

\* A text is a sequence of one-character strings.
Digits == <<"0", "1", "2", "3", "4", "5", "6", "7", "8", "9">>

\* A JSON value of the data map: a string, an integer, a boolean or null.
JStr(s) == [t |-> "str", s |-> s, n |-> 0, b |-> FALSE]
JInt(n) == [t |-> "int", s |-> << >>, n |-> n, b |-> FALSE]
JBool(b) == [t |-> "bool", s |-> << >>, n |-> 0, b |-> b]
JNull == [t |-> "null", s |-> << >>, n |-> 0, b |-> FALSE]

RECURSIVE NatText(_)
NatText(n) ==
    IF n < 10 THEN <<Digits[n + 1]>>
    ELSE NatText(n \div 10) \o <<Digits[(n % 10) + 1]>>

\* Python's str(v) on a value parsed from JSON.
str(v) ==
    CASE v.t = "str" -> v.s
      [] v.t = "int" -> IF v.n < 0 THEN <<"-">> \o NatText(0 - v.n) ELSE NatText(v.n)
      [] v.t = "bool" -> IF v.b THEN <<"T", "r", "u", "e">>
                         ELSE <<"F", "a", "l", "s", "e">>
      [] OTHER -> <<"N", "o", "n", "e">>

\* sanitized_data = {str(k): str(v) for k, v in data.items()}; the keys of a
\* JSON object are strings already.
sanitized_data(data) == [k \in DOMAIN data |-> str(data[k])]

\* The first "}" of s at or after position from, 0 if there is none.
FirstClose(s, from) ==
    IF \E j \in from..Len(s) : s[j] = "}"
    THEN CHOOSE j \in from..Len(s) :
            s[j] = "}" /\ \A m \in from..(j - 1) : s[m] # "}"
    ELSE 0

\* The last position of the match of \{\{([^}]+)\}\} that starts at i, 0 if
\* the pattern does not match there.
MatchEnd(s, i) ==
    IF i + 1 <= Len(s) /\ s[i] = "{" /\ s[i + 1] = "{"
    THEN LET j == FirstClose(s, i + 2)
         IN  IF j > i + 2 /\ j + 1 <= Len(s) /\ s[j + 1] = "}"
             THEN j + 1 ELSE 0
    ELSE 0

\* sanitized_data.get(key, match.group(0))
replace_match_drops_unknown(m, data) ==
    LET key == SubSeq(m, 3, Len(m) - 2)
    IN  IF key \in DOMAIN data THEN data[key] ELSE << >>

replace_match(m, data) ==
    LET key == SubSeq(m, 3, Len(m) - 2)
    IN  IF key \in DOMAIN data THEN data[key] ELSE m

\* re.sub: the leftmost matches, left to right, without overlap; what a
\* replacement puts in is not scanned again.
RECURSIVE re_sub(_, _, _)
re_sub(s, i, data) ==
    IF i > Len(s) THEN << >>
    ELSE LET e == MatchEnd(s, i)
         IN  IF e = 0 THEN <<s[i]>> \o re_sub(s, i + 1, data)
             ELSE replace_match(SubSeq(s, i, e), data) \o re_sub(s, e + 1, data)

\* A second pass over the output of the first.
replace_placeholders_twice(text, data) ==
    re_sub(re_sub(text, 1, sanitized_data(data)), 1, sanitized_data(data))

replace_placeholders(text, data) == re_sub(text, 1, sanitized_data(data))


\* =====================================================================
\* Templates, sections, compositions and documents
\* =====================================================================

TemplateIds == 1..NumTemplates
SectionIds == 1..NumSections
DocumentIds == 1..MaxDocs
TemplateNames == 1..NumNames
NoId == 0

\* The template ids of the requests on templates themselves: room for two
\* templates at least, and one id that no row can have.
LibraryTemplateIds == 1..(NumTemplates + 1)
TemplateIdRequests == 1..(NumTemplates + 2)

\* The order_index values a request carries; -1 stands for the values that
\* Range(min=0) turns down.
OrderIndexRequests == (0 - 1)..MaxOrderIndex

\* The bodies of the sections that requests create.
SectionContents ==
    { <<"{", "{", "x", "}", "}">>, <<"f", "i", "x", "e", "d">> }

\* The dynamic_data of the documents that requests create.
DocumentDatas == { << >>, [k \in {<<"x">>} |-> JStr(<<"4", "2">>)] }

\* The columns the handlers below read or write.
TemplateRow(name) == [template_name |-> name]
SectionRow(body) == [section_content_template |-> body]
CompositionRow(t, s, k) == [template_id |-> t, section_id |-> s, order_index |-> k]
DocumentRow(t, text, data) ==
    [template_id |-> t, text_content |-> text, dynamic_data |-> data, pdf_url |-> NoId]

\* PrimaryKeyConstraint("template_id", "section_id")
CompositionPrimaryKey(rows) ==
    \A a, b \in rows :
        a.template_id = b.template_id /\ a.section_id = b.section_id => a = b

\* UniqueConstraint("template_id", "order_index")
OrderIndexUniqueMissing(rows) == TRUE

OrderIndexUnique(rows) ==
    \A a, b \in rows :
        a.template_id = b.template_id /\ a.order_index = b.order_index => a = b

\* The foreign keys of a composition row.
CompositionForeignKeys(rows, ts, ss) ==
    \A a \in rows : a.template_id \in DOMAIN ts /\ a.section_id \in DOMAIN ss

\* Template.template_name is unique.
TemplateNameUnique(ts) ==
    \A i, j \in DOMAIN ts : ts[i].template_name = ts[j].template_name => i = j

FreshId(db, ids) == CHOOSE i \in ids \ DOMAIN db : \A j \in ids \ DOMAIN db : i <= j

Insert(db, id, row) == [i \in DOMAIN db \cup {id} |-> IF i = id THEN row ELSE db[i]]

\* ---- repositories ----------------------------------------------------

\* TemplateRepository.create: a duplicate name is a ValueError.
template_repo_create(ts, id, name) ==
    LET new == Insert(ts, id, TemplateRow(name))
    IN  IF TemplateNameUnique(new) THEN [db |-> new, exc |-> "none"]
        ELSE [db |-> ts, exc |-> "ValueError"]

\* TemplateSectionCompositionRepository.get_by_ids
get_by_ids(rows, t, s) == {a \in rows : a.template_id = t /\ a.section_id = s}

\* TemplateSectionCompositionRepository.create: add, commit; an
\* IntegrityError rolls back and becomes a RuntimeError.
composition_repo_create(rows, ts, ss, row) ==
    LET new == rows \cup {row}
    IN  IF /\ get_by_ids(rows, row.template_id, row.section_id) = {}
           /\ CompositionPrimaryKey(new)
           /\ OrderIndexUnique(new)
           /\ CompositionForeignKeys(new, ts, ss)
        THEN [rows |-> new, exc |-> "none"]
        ELSE [rows |-> rows, exc |-> "RuntimeError"]

\* TemplateSectionCompositionRepository.update: setattr, commit.
composition_repo_update(rows, old, body) ==
    LET row == IF body.has_index THEN [old EXCEPT !.order_index = body.order_index]
               ELSE old
        new == (rows \ {old}) \cup {row}
    IN  IF OrderIndexUnique(new) THEN [rows |-> new, exc |-> "none"]
        ELSE [rows |-> rows, exc |-> "RuntimeError"]

\* TemplateSectionCompositionRepository.delete
composition_repo_delete(rows, old) == rows \ {old}

\* ---- schemas ---------------------------------------------------------

\* TemplateSchema().dump(template): the fields the schema declares.
TemplateSchema_dump(id, row) == [template_id |-> id, template_name |-> row.template_name]

\* TemplateSectionSchema().dump(section)
TemplateSectionSchema_dump(id, row) ==
    [section_id |-> id, section_content_template |-> row.section_content_template]

\* TemplateSectionCompositionSchema().dump(composition)
TemplateSectionCompositionSchema_dump(row) ==
    [template_id |-> row.template_id, section_id |-> row.section_id,
     order_index |-> row.order_index]

\* dict.get(key, default)
Get(d, key, default) == IF key \in DOMAIN d THEN d[key] ELSE default

\* validate.Range(min=0) on order_index
ValidOrderIndex(k) == k >= 0


\* ---- services --------------------------------------------------------

\* TemplateService.create_template
create_template_service(ts, id, name) == template_repo_create(ts, id, name)

\* TemplateSectionService.create_template_section
create_template_section_service(ss, id, body) == Insert(ss, id, SectionRow(body))

\* TemplateSectionCompositionService.create_composition
create_composition(rows, ts, ss, t, s, k) ==
    IF ~ValidOrderIndex(k) THEN [rows |-> rows, exc |-> "ValueError"]
    ELSE composition_repo_create(rows, ts, ss, CompositionRow(t, s, k))

\* The bodies of a composition update: order_index present or not (a body
\* without it carries is_mandatory alone).
CompositionUpdateBodies ==
    {[has_index |-> TRUE, order_index |-> k] : k \in OrderIndexRequests}
        \cup {[has_index |-> FALSE, order_index |-> 0]}

\* TemplateSectionCompositionService.update_composition
update_composition(rows, t, s, body) ==
    IF body.has_index /\ ~ValidOrderIndex(body.order_index)
    THEN [rows |-> rows, exc |-> "ValueError", found |-> FALSE]
    ELSE IF get_by_ids(rows, t, s) = {}
    THEN [rows |-> rows, exc |-> "none", found |-> FALSE]
    ELSE LET old == CHOOSE a \in get_by_ids(rows, t, s) : TRUE
             u == composition_repo_update(rows, old, body)
         IN  [rows |-> u.rows, exc |-> u.exc, found |-> TRUE]

\* TemplateSectionCompositionService.delete_composition
delete_composition(rows, t, s) ==
    IF get_by_ids(rows, t, s) = {} THEN [rows |-> rows, found |-> FALSE]
    ELSE [rows |-> composition_repo_delete(rows,
                        CHOOSE a \in get_by_ids(rows, t, s) : TRUE),
          found |-> TRUE]

\* get_compositions_by_template_id: the dumps of the template's rows,
\* ordered by order_index.
RECURSIVE OrderedByIndex(_)
OrderedByIndex(rows) ==
    IF rows = {} THEN << >>
    ELSE LET m == CHOOSE a \in rows : \A b \in rows : a.order_index <= b.order_index
         IN  <<TemplateSectionCompositionSchema_dump(m)>> \o OrderedByIndex(rows \ {m})

get_compositions_by_template_id(rows, t) ==
    OrderedByIndex({a \in rows : a.template_id = t})

\* The loop of create_document over the sorted compositions.
RECURSIVE combine_sections(_, _, _)
combine_sections(text, comps, ss) ==
    IF comps = << >> THEN text
    ELSE LET composition_data == Head(comps)
             section_id == Get(composition_data, "template_section_id", NoId)
             next ==
                IF section_id # NoId /\ section_id \in DOMAIN ss
                THEN LET section == TemplateSectionSchema_dump(section_id, ss[section_id])
                     IN  (IF text # << >> THEN text \o <<"\n">> ELSE text)
                            \o Get(section, "content", << >>)
                ELSE text
         IN  combine_sections(next, Tail(comps), ss)

\* DocumentService.create_document
create_document_without_template(docs, ts, ss, rows, id, t, data) ==
    [docs |-> Insert(docs, id, DocumentRow(t, << >>, data)), exc |-> "none"]

create_document(docs, ts, ss, rows, id, t, data) ==
    IF t \notin DOMAIN ts THEN [docs |-> docs, exc |-> "ValueError"]
    ELSE LET template == TemplateSchema_dump(t, ts[t])
             combined_text_content ==
                combine_sections(Get(template, "base_content", << >>),
                                 get_compositions_by_template_id(rows, t), ss)
             final_text_content == replace_placeholders(combined_text_content, data)
         IN  [docs |-> Insert(docs, id, DocumentRow(t, final_text_content, data)),
              exc |-> "none"]

\* ---- controllers -----------------------------------------------------

\* template_controller.create_template and
\* template_section_composition_controller: the status of an outcome.
TemplateStatus(exc, ok) ==
    IF exc = "ValueError" THEN 400
    ELSE IF exc = "RuntimeError" THEN 409
    ELSE ok

\* document_controller.create_document
DocumentStatus(exc) ==
    IF exc = "ValueError" THEN 400
    ELSE IF exc = "RuntimeError" THEN 500
    ELSE 201

\* Whether a row of template t other than section s's holds order_index k.
IndexInUse(rows, t, s, k) ==
    \E a \in rows : a.template_id = t /\ a.order_index = k /\ a.section_id # s

\* The record of an answered request, with the order_index it asked for (0
\* when it carried none): used tells whether the order_index it
\* asked for was, before the call, held by a row of the same template;
\* unchanged tells whether the call left the composition rows as they were.
Answered(op, status, exc, id, k, used, rows) ==
    [op |-> op, status |-> status, exc |-> exc, id |-> id, order_index |-> k,
     used |-> used, unchanged |-> (rows = compositions)]

\* POST /api/templates, the new row's id drawn from ids; the answer records
\* the template_name asked for.
create_template_among(ids) ==
    \E name \in TemplateNames :
        /\ ids \ DOMAIN templates # {}
        /\ LET id == FreshId(templates, ids)
               o == create_template_service(templates, id, name)
           IN  /\ templates' = o.db
               /\ lastT' = Answered("create_template", TemplateStatus(o.exc, 201),
                                    o.exc, id, 0, FALSE, compositions)
                              @@ [template_name |-> name]
        /\ UNCHANGED <<sections, compositions, documents>>
        /\ UNCHANGED <<agentVars, reqs, substVars, audioVars, extraVars>>

create_template == create_template_among(TemplateIds)

create_template_section ==
    \E body \in SectionContents :
        /\ DOMAIN sections # SectionIds
        /\ LET id == FreshId(sections, SectionIds)
           IN  /\ sections' = create_template_section_service(sections, id, body)
               /\ lastT' = Answered("create_template_section", 201, "none", id,
                                    0, FALSE, compositions)
        /\ UNCHANGED <<templates, compositions, documents>>
        /\ UNCHANGED <<agentVars, reqs, substVars, audioVars, extraVars>>

\* POST /api/template-section-compositions with the body (t, s, k).
create_template_section_composition_of(t, s, k) ==
        LET o == create_composition(compositions, templates, sections, t, s, k)
        IN  /\ compositions' = o.rows
            /\ lastT' = Answered("create_composition", TemplateStatus(o.exc, 201),
                                 o.exc, NoId, k,
                                 IndexInUse(compositions, t, NoId, k), o.rows)
            /\ UNCHANGED <<templates, sections, documents>>
            /\ UNCHANGED <<agentVars, reqs, substVars, audioVars, extraVars>>

create_template_section_composition ==
    \E t \in TemplateIds, s \in SectionIds, k \in OrderIndexRequests :
        create_template_section_composition_of(t, s, k)

update_template_section_composition ==
    \E t \in TemplateIds, s \in SectionIds, body \in CompositionUpdateBodies :
        LET o == update_composition(compositions, t, s, body)
            ok == IF o.found THEN 200 ELSE 404
        IN  /\ compositions' = o.rows
            /\ lastT' = Answered("update_composition", TemplateStatus(o.exc, ok),
                                 o.exc, NoId, body.order_index,
                                 /\ body.has_index
                                 /\ get_by_ids(compositions, t, s) # {}
                                 /\ IndexInUse(compositions, t, s, body.order_index),
                                 o.rows)
            /\ UNCHANGED <<templates, sections, documents>>
            /\ UNCHANGED <<agentVars, reqs, substVars, audioVars, extraVars>>

delete_template_section_composition ==
    \E t \in TemplateIds, s \in SectionIds :
        LET o == delete_composition(compositions, t, s)
        IN  /\ compositions' = o.rows
            /\ lastT' = Answered("delete_composition",
                                 IF o.found THEN 204 ELSE 404, "none", NoId,
                                 0, FALSE, o.rows)
            /\ UNCHANGED <<templates, sections, documents>>
            /\ UNCHANGED <<agentVars, reqs, substVars, audioVars, extraVars>>

create_document_request ==
    \E t \in TemplateIdRequests, data \in DocumentDatas :
        /\ DOMAIN documents # DocumentIds \/ t \notin DOMAIN templates
        /\ LET id == IF DOMAIN documents # DocumentIds
                     THEN FreshId(documents, DocumentIds) ELSE NoId
               o == create_document(documents, templates, sections, compositions,
                                    id, t, data)
           IN  /\ documents' = o.docs
               /\ lastT' = Answered("create_document", DocumentStatus(o.exc),
                                    o.exc, id, 0, FALSE, compositions)
                              @@ [template_id |-> t, dynamic_data |-> data]
        /\ UNCHANGED <<templates, sections, compositions>>
        /\ UNCHANGED <<agentVars, reqs, substVars, audioVars, extraVars>>

\* The composition requests, on a catalogue of templates and sections in
\* which the last id of each kind may be missing.
Catalogue(ids, row) == {[i \in 1..n |-> row] : n \in {Cardinality(ids) - 1, Cardinality(ids)}}

InitCompositions ==
    /\ InitAgents /\ InitReqsIdle /\ InitExtraIdle /\ InitSubstIdle /\ InitAudioIdle
    /\ templates \in {[i \in DOMAIN c |-> TemplateRow(i)] : c \in Catalogue(TemplateIds, NoId)}
    /\ sections \in Catalogue(SectionIds, SectionRow(<<"f", "i", "x", "e", "d">>))
    /\ compositions = {}
    /\ documents = << >>
    /\ lastT = NoRequest

NextCompositions ==
    \/ create_template_section_composition
    \/ update_template_section_composition
    \/ delete_template_section_composition

SpecCompositions == InitCompositions /\ [][NextCompositions]_vars

\* Documents assembled from templates, sections and compositions that the
\* requests themselves created.
InitDocuments == InitAgents /\ InitReqsIdle /\ InitExtraIdle /\ InitTemplates /\ InitSubstIdle /\ InitAudioIdle

NextDocuments ==
    \/ create_template
    \/ create_template_section
    \/ create_template_section_composition
    \/ create_document_request

SpecDocuments == InitDocuments /\ [][NextDocuments]_vars

\* =====================================================================
\* Properties of templates, compositions and documents
\* =====================================================================

\* C7: no two composition rows of one template share an order_index, and a
\* create, or an update of order_index on a stored composition, that asks
\* for an index another row of the template holds is answered 409 and
\* leaves the composition rows as they were (so it creates none).
C7_OrderIndexUniquePerTemplate ==
    /\ \A a, b \in compositions :
          a # b /\ a.template_id = b.template_id => a.order_index # b.order_index
    /\ lastT.op \in {"create_composition", "update_composition"} /\ lastT.used
          => lastT.status = 409 /\ lastT.unchanged

\* C7's case: a create asked for an index in use and was turned down while
\* rows were stored.
C7_Witness ==
    /\ lastT.op = "create_composition"
    /\ lastT.used
    /\ lastT.status = 409
    /\ Cardinality(compositions) >= 2

\* The text C8 describes for template t and data: the template's base
\* content, then each composed section's body in ascending order_index, a
\* newline before each unless the text so far is empty, then substitution.
RECURSIVE C8_Sections(_, _)
C8_Sections(text, comps) ==
    IF comps = << >> THEN text
    ELSE C8_Sections((IF text # << >> THEN text \o <<"\n">> ELSE text)
                        \o sections[Head(comps).section_id].section_content_template,
                     Tail(comps))

C8_Text(t, data) ==
    replace_placeholders(
        C8_Sections(Get(TemplateSchema_dump(t, templates[t]), "base_content", << >>),
                    get_compositions_by_template_id(compositions, t)),
        data)

\* C8: the text_content that create_document stores is the template's base
\* content followed by the bodies of the template's composed sections in
\* ascending order_index, newline-separated, with the placeholders
\* substituted from dynamic_data.
C8_AssembledText ==
    lastT.op = "create_document" /\ lastT.status = 201
        => documents[lastT.id].text_content
             = C8_Text(documents[lastT.id].template_id, documents[lastT.id].dynamic_data)


\* =====================================================================
\* Placeholder substitution on its own
\* =====================================================================

\* A text is written as a list of pieces: literal text, or a placeholder
\* {{name}}.
Lit(text) == [kind |-> "lit", text |-> text]
Ph(name) == [kind |-> "ph", text |-> name]

Tokens ==
    { Lit(<<"a">>), Lit(<<"{">>), Lit(<<"}">>), Lit(<<"H", "e", "l", "l", "o", " ">>),
      Ph(<<"x">>), Ph(<<"y">>), Ph(<<"n", "a", "m", "e">>) }

TokenLists == UNION {[1..n -> Tokens] : n \in 0..MaxTokens}

\* The data maps of the requests: empty, text values, an integer and a
\* boolean value, and a value that itself reads as a placeholder.
DataMaps ==
    { << >>,
      <<"x">> :> JStr(<<"4", "2">>),
      (<<"x">> :> JInt(42)) @@ (<<"n", "a", "m", "e">> :> JStr(<<"A", "n", "a">>)),
      <<"n", "a", "m", "e">> :> JBool(TRUE),
      (<<"x">> :> JStr(<<"{", "{", "y", "}", "}">>)) @@ (<<"y">> :> JNull),
      (<<"x">> :> JStr(<<"{", "{", "y", "}", "}">>)) @@ (<<"y">> :> JStr(<<"v">>)) }

RenderToken(tok) ==
    IF tok.kind = "ph" THEN <<"{", "{">> \o tok.text \o <<"}", "}">> ELSE tok.text

RECURSIVE Render(_)
Render(toks) == IF toks = << >> THEN << >> ELSE RenderToken(Head(toks)) \o Render(Tail(toks))

InitSubst ==
    /\ InitAgents /\ InitReqsIdle /\ InitExtraIdle /\ InitTemplates /\ InitAudioIdle
    /\ tokens \in TokenLists
    /\ content = Render(tokens)
    /\ dynamic_data \in DataMaps
    /\ replaced = NotReplaced

\* final_text_content = self._replace_placeholders(content, dynamic_data)
call_replace_placeholders ==
    /\ ~replaced.done
    /\ replaced' = [done |-> TRUE, text |-> replace_placeholders(content, dynamic_data)]
    /\ UNCHANGED <<tokens, content, dynamic_data>>
    /\ UNCHANGED <<agentVars, reqs, templateVars, audioVars, extraVars>>

NextSubst == call_replace_placeholders

SpecSubst == InitSubst /\ [][NextSubst]_vars

\* The inner spans of the {{...}} stretches of s: between a "{{" and a "}}",
\* not empty and free of "}".
InnerSpans(s) ==
    { SubSeq(s, i + 2, e - 2) : <<i, e>> \in
        { p \in (1..Len(s)) \X (1..Len(s)) :
            /\ p[1] + 4 <= p[2]
            /\ s[p[1]] = "{" /\ s[p[1] + 1] = "{"
            /\ s[p[2] - 1] = "}" /\ s[p[2]] = "}"
            /\ \A m \in (p[1] + 2)..(p[2] - 2) : s[m] # "}" } }

\* A list of pieces whose literal text holds no brace: its placeholders
\* are exactly its {{name}} pieces.
PlainLiterals(toks) ==
    \A n \in 1..Len(toks) :
        toks[n].kind = "lit" => \A m \in 1..Len(toks[n].text) :
                                    toks[n].text[m] \notin {"{", "}"}

\* What C9 describes, piece by piece: a placeholder whose name is a key
\* becomes the key's value as text, any other piece stays as written.
RECURSIVE C9_Expected(_, _)
C9_Expected(toks, data) ==
    IF toks = << >> THEN << >>
    ELSE (IF Head(toks).kind = "ph" /\ Head(toks).text \in DOMAIN data
          THEN str(data[Head(toks).text])
          ELSE RenderToken(Head(toks)))
         \o C9_Expected(Tail(toks), data)

\* C9: substitution puts, for each {{name}} whose inner span is a key of
\* dynamic_data, the key's value coerced to text, and leaves every {{name}}
\* whose inner span is no key as written; with an empty dynamic_data, or
\* when no inner span is a key, the output is the input ("Hello {{name}}"
\* stays "Hello {{name}}"); an integer 42 is put in as "42".
C9_SubstitutionVerbatim ==
    replaced.done =>
        /\ DOMAIN dynamic_data = {} => replaced.text = content
        /\ InnerSpans(content) \cap DOMAIN dynamic_data = {} => replaced.text = content
        /\ PlainLiterals(tokens) => replaced.text = C9_Expected(tokens, dynamic_data)
        /\ content = <<"H", "e", "l", "l", "o", " ", "{", "{", "n", "a", "m", "e", "}", "}">>
              /\ DOMAIN dynamic_data = {}
              => replaced.text = content
        /\ tokens = <<Ph(<<"x">>)>> /\ <<"x">> \in DOMAIN dynamic_data
              /\ dynamic_data[<<"x">>] = JInt(42)
              => replaced.text = <<"4", "2">>

\* C9's case: a text with a placeholder that is a key and one that is not
\* went through substitution, and the first alone was replaced.
C9_Witness ==
    /\ replaced.done
    /\ PlainLiterals(tokens)
    /\ \E i, j \in 1..Len(tokens) :
          /\ tokens[i].kind = "ph" /\ tokens[i].text \in DOMAIN dynamic_data
          /\ tokens[j].kind = "ph" /\ tokens[j].text \notin DOMAIN dynamic_data
    /\ replaced.text # content
    /\ replaced.text = C9_Expected(tokens, dynamic_data)

\* =====================================================================
\* Audio chunking (src/app/utils/audio_processor.py)
\* =====================================================================

SEGMENT_DURATION_MS == 90000

Min(a, b) == IF a <= b THEN a ELSE b

\* len(audio[i : i + segment]) for an audio of len milliseconds: a slice
\* is clipped to the audio's end.
slice_len_unclipped(len, i, segment) == segment

slice_len(len, i, segment) == Min(i + segment, len) - Min(i, len)

\* for i in range(0, len(audio), segment_duration_ms): one chunk per i
RECURSIVE split_loop(_, _, _)
split_loop(i, len, segment) ==
    IF i >= len THEN << >>
    ELSE <<slice_len(len, i, segment)>> \o split_loop(i + segment, len, segment)

\* AudioProcessor._split_audio_for_whisper, on the audio's length
split_audio_for_whisper(len, segment) ==
    LET segs == IF len > segment THEN split_loop(0, len, segment) ELSE <<len>>
    IN  IF segs = << >> /\ len = 0
        THEN [returned |-> TRUE, exc |-> "ValueError", chunks |-> << >>]
        ELSE [returned |-> TRUE, exc |-> "none", chunks |-> segs]

\* The audio lengths and segment durations tried: every small pair, and
\* the configured duration with the lengths around its multiples.
AudioCases ==
    ((0..MaxAudioMs) \X (1..MaxSegmentMs))
        \cup { <<l, SEGMENT_DURATION_MS>> : l \in
                 { SEGMENT_DURATION_MS - 1, SEGMENT_DURATION_MS,
                   SEGMENT_DURATION_MS + 1, 2 * SEGMENT_DURATION_MS,
                   2 * SEGMENT_DURATION_MS + 1 } }

InitAudio ==
    /\ InitAgents /\ InitReqsIdle /\ InitExtraIdle /\ InitTemplates /\ InitSubstIdle
    /\ \E p \in AudioCases : audio_len = p[1] /\ segment_duration_ms = p[2]
    /\ processed_segments = NotSplit

call_split_audio_for_whisper ==
    /\ ~processed_segments.returned
    /\ processed_segments' = split_audio_for_whisper(audio_len, segment_duration_ms)
    /\ UNCHANGED <<audio_len, segment_duration_ms>>
    /\ UNCHANGED <<agentVars, reqs, templateVars, substVars, extraVars>>

NextAudio == call_split_audio_for_whisper

SpecAudio == InitAudio /\ [][NextAudio]_vars

RECURSIVE SumSeq(_)
SumSeq(q) == IF q = << >> THEN 0 ELSE Head(q) + SumSeq(Tail(q))

\* C10: an audio of L ms with segment duration S > 0 comes back as one
\* chunk of L ms when L <= S; when L > S as n chunks, n the least number
\* with n * S >= L, all of S ms but the last, the last of L - S * (n - 1)
\* ms, the lengths summing to L. With S = 90000, L = 90000 is one chunk and
\* L = 90001 is the chunks 90000 and 1.
C10_ChunkLengths ==
    LET L == audio_len
        S == segment_duration_ms
        c == processed_segments.chunks
        n == Len(c)
    IN  processed_segments.returned =>
            /\ processed_segments.exc = "none"
            /\ L <= S => c = <<L>>
            /\ L > S =>
                 /\ n * S >= L /\ (n - 1) * S < L
                 /\ \A m \in 1..(n - 1) : c[m] = S
                 /\ c[n] = L - S * (n - 1)
                 /\ SumSeq(c) = L
            /\ S = 90000 /\ L = 90000 => c = <<90000>>
            /\ S = 90000 /\ L = 90001 => c = <<90000, 1>>

\* C10's case: an audio one millisecond over the configured duration was
\* split in two.
C10_Witness ==
    /\ processed_segments.returned
    /\ segment_duration_ms = SEGMENT_DURATION_MS
    /\ audio_len = SEGMENT_DURATION_MS + 1
    /\ Len(processed_segments.chunks) = 2


\* C11: an audio that decodes to zero length is turned down by the chunking
\* step: the step raises ValueError and hands back no chunk (so none can be
\* sent to the speech API).
C11_EmptyAudioRejected ==
    processed_segments.returned /\ audio_len = 0
        => processed_segments.exc = "ValueError" /\ processed_segments.chunks = << >>

\* ---------------------------------------------------------------------------
\* Transcription: TranscribeService.transcribe_audio and the audio processor
\* ---------------------------------------------------------------------------

MaxCalls == 2

notPipelineVars ==
    <<agentVars, reqs, templateVars, substVars, audioVars, directoryVars, documentTypeVars,
      oidcVars, sessionVars>>

\* A row of ai_agent_configurations with the columns the pipeline reads.
\* config_json is {} or {"segment_duration_ms": n}.
PipelineAgent(active, default, provider, model_name, config_json) ==
    [agent_name |-> model_name, is_active |-> active, is_default |-> default,
     provider |-> provider, model_name |-> model_name, config_json |-> config_json]

EmptyConfig == << >>

SegmentConfig(ms) == [k \in {"segment_duration_ms"} |-> ms]

\* Agents 1..4 are never the default; agent 5 is the default slot.
NonDefaultAgents ==
    [i \in 1..4 |->
        CASE i = 1 -> PipelineAgent(TRUE, FALSE, "OPENAI", "whisper-1", SegmentConfig(45000))
          [] i = 2 -> PipelineAgent(TRUE, FALSE, "OPENAI", "gpt-4o", EmptyConfig)
          [] i = 3 -> PipelineAgent(TRUE, FALSE, "AWS_BEDROCK", "whisper-1", EmptyConfig)
          [] i = 4 -> PipelineAgent(FALSE, FALSE, "OPENAI", "whisper-1", EmptyConfig)]

DefaultAgents ==
    {PipelineAgent(TRUE, TRUE, "OPENAI", "whisper-1", EmptyConfig),
     PipelineAgent(TRUE, TRUE, "GOOGLE_AI", "gemini", EmptyConfig),
     PipelineAgent(FALSE, TRUE, "OPENAI", "whisper-1", EmptyConfig)}

PipelineStores ==
    {NonDefaultAgents} \cup
    {[i \in 1..5 |-> IF i = 5 THEN d ELSE NonDefaultAgents[i]] : d \in DefaultAgents}

\* agent_id of a request: absent, a stored agent, or an id of no row.
RequestAgentIds == {NoAgent} \cup (1..6)

\* The uploaded audio: whether pydub can decode it, and its length in ms.
AudioFiles ==
    {[decodes |-> FALSE, len |-> 0]} \cup
    {[decodes |-> TRUE, len |-> l] : l \in {0, 45000, SEGMENT_DURATION_MS, SEGMENT_DURATION_MS + 1}}

get_by_id(db, agent_id) == IF agent_id \in DOMAIN db THEN agent_id ELSE NoAgent

get_default_agent(db) ==
    IF ActiveDefaults(db) = {} THEN NoAgent ELSE CHOOSE i \in ActiveDefaults(db) : TRUE

IncompatibleOnlyIfBoth(row) == row.provider # "OPENAI" /\ row.model_name # "whisper-1"

Incompatible(row) == row.provider # "OPENAI" \/ row.model_name # "whisper-1"

\* Lines 52-78: the agent the call will use, or the ValueError it raises.
select_agent(db, agent_id) ==
    LET found == IF agent_id # NoAgent THEN get_by_id(db, agent_id) ELSE get_default_agent(db)
    IN  IF found = NoAgent THEN [exc |-> "ValueError", selected |-> NoAgent]
        ELSE IF agent_id # NoAgent /\ ~db[found].is_active
             THEN [exc |-> "ValueError", selected |-> NoAgent]
        ELSE IF Incompatible(db[found]) THEN [exc |-> "ValueError", selected |-> found]
        ELSE [exc |-> "none", selected |-> found]

\* Lines 81-92: the agent's configured segment length, else the service default.
segment_duration(row) ==
    IF "segment_duration_ms" \in DOMAIN row.config_json
    THEN row.config_json["segment_duration_ms"]
    ELSE SEGMENT_DURATION_MS

StatusOf(exc) ==
    CASE exc = "none" -> 201
      [] exc = "ValueError" -> 400
      [] OTHER -> 500

\* The finally block: the staged file is removed when it exists.
keep_temp_file(files, path) == files

remove_temp_file(files, path) == files \ {path}

\* The text the speech API returns for chunk i.
SpeechText(i) == <<"c">> \o NatText(i)

RECURSIVE join(_, _)
join(sep, parts) ==
    IF parts = << >> THEN << >>
    ELSE IF Len(parts) = 1 THEN parts[1]
    ELSE parts[1] \o sep \o join(sep, Tail(parts))

TranscriptionRow(text, duration, agent_id) ==
    [text_content |-> text, duration_seconds |-> duration, status |-> "completed",
     agent_id |-> agent_id]

\* The call ends by raising exc; the controller maps it to a status.
raised(call, exc) == [call EXCEPT !.pc = "done", !.exc = exc, !.status = StatusOf(exc)]

api_error_retried(call) == call

\* except APIError / except Exception of the processor, re-raised by the service.
api_error(call) == raised(call, "RuntimeError")

\* Lines 48-92: the checks made before anything is staged.
begin_transcribe_audio ==
    /\ tcall.pc \in {"idle", "done"}
    /\ tcall.n < MaxCalls
    /\ \E filename \in BOOLEAN, agent_id \in RequestAgentIds, audio \in AudioFiles :
        LET call == [NoCall EXCEPT !.n = tcall.n + 1, !.filename = filename,
                                   !.agent_id = agent_id, !.audio = audio]
            a == select_agent(agents, agent_id)
        IN  tcall' =
                IF ~filename THEN raised(call, "ValueError")
                ELSE IF a.exc # "none" THEN raised([call EXCEPT !.selected = a.selected], a.exc)
                ELSE [call EXCEPT !.pc = "stage", !.selected = a.selected,
                                  !.segment = segment_duration(agents[a.selected])]
    /\ outbound' = NoOutbound
    /\ UNCHANGED <<temp_files, transcriptions, notPipelineVars>>

\* Lines 97-104: the upload is saved under a fresh name in the temp directory.
stage_file ==
    /\ tcall.pc = "stage"
    /\ LET path == tcall.n
           call == [tcall EXCEPT !.temp = path]
       IN  \/ /\ tcall' = [call EXCEPT !.pc = "upload"]
              /\ temp_files' = temp_files \cup {path}
           \/ \E written \in BOOLEAN :
                /\ tcall' = raised(call, "RuntimeError")
                /\ temp_files' =
                       remove_temp_file(IF written THEN temp_files \cup {path} ELSE temp_files,
                                        path)
    /\ UNCHANGED <<outbound, transcriptions, notPipelineVars>>

\* Lines 108-109: one upload to blob storage.
upload_blob ==
    /\ tcall.pc = "upload"
    /\ outbound' = [outbound EXCEPT !.uploads = @ + 1]
    /\ \/ /\ tcall' = [tcall EXCEPT !.pc = "duration"]
          /\ UNCHANGED temp_files
       \/ /\ tcall' = raised(tcall, "RuntimeError")
          /\ temp_files' = remove_temp_file(temp_files, tcall.temp)
    /\ UNCHANGED <<transcriptions, notPipelineVars>>

\* Lines 112-113: the service decodes the file to read its duration.
read_duration ==
    /\ tcall.pc = "duration"
    /\ IF tcall.audio.decodes
       THEN /\ tcall' = [tcall EXCEPT !.pc = "split"]
            /\ UNCHANGED temp_files
       ELSE /\ tcall' = raised(tcall, "RuntimeError")
            /\ temp_files' = remove_temp_file(temp_files, tcall.temp)
    /\ UNCHANGED <<outbound, transcriptions, notPipelineVars>>

\* audio_processor.py 71-79: the audio is cut into chunks.
split_for_whisper ==
    /\ tcall.pc = "split"
    /\ LET r == split_audio_for_whisper(tcall.audio.len, tcall.segment)
       IN  IF r.exc # "none"
           THEN /\ tcall' = raised(tcall, r.exc)
                /\ temp_files' = remove_temp_file(temp_files, tcall.temp)
                /\ UNCHANGED outbound
           ELSE /\ tcall' = [tcall EXCEPT !.chunks = r.chunks,
                                          !.pc = IF r.chunks = << >> THEN "persist" ELSE "speech"]
                /\ outbound' = [outbound EXCEPT !.speech = [i \in 1..Len(r.chunks) |-> 0]]
                /\ UNCHANGED temp_files
    /\ UNCHANGED <<transcriptions, notPipelineVars>>

\* audio_processor.py 82-109: one speech request for the next chunk.
speech_call ==
    /\ tcall.pc = "speech"
    /\ LET i == Len(tcall.parts) + 1
       IN  /\ outbound' = [outbound EXCEPT !.speech[i] = @ + 1]
           /\ \/ /\ tcall' = [tcall EXCEPT !.parts = Append(@, SpeechText(i)),
                                           !.pc = IF i = Len(tcall.chunks)
                                                  THEN "persist" ELSE "speech"]
                 /\ UNCHANGED temp_files
              \/ /\ tcall' = api_error(tcall)
                 /\ temp_files' = remove_temp_file(temp_files, tcall.temp)
    /\ UNCHANGED <<transcriptions, notPipelineVars>>

\* Lines 121-138: the row is added and committed; the finally block follows.
persist_transcription ==
    /\ tcall.pc = "persist"
    /\ temp_files' = remove_temp_file(temp_files, tcall.temp)
    /\ \/ /\ transcriptions' =
                 Append(transcriptions,
                        TranscriptionRow(join(<<" ">>, tcall.parts),
                                         tcall.audio.len \div 1000, tcall.selected))
          /\ tcall' = [raised(tcall, "none") EXCEPT !.row = Len(transcriptions) + 1]
       \/ /\ tcall' = raised(tcall, "RuntimeError")
          /\ UNCHANGED transcriptions
    /\ UNCHANGED <<outbound, notPipelineVars>>

InitTranscribe ==
    /\ agents \in PipelineStores
    /\ last = [op |-> "none", id |-> NoAgent, data |-> NoData, before |-> << >>,
               exc |-> "none", status |-> 0, promoted |-> NoAgent]
    /\ InitReqsIdle
    /\ InitExtraIdle
    /\ InitTemplates
    /\ InitSubstIdle
    /\ InitAudioIdle

NextTranscribe ==
    \/ begin_transcribe_audio
    \/ stage_file
    \/ upload_blob
    \/ read_duration
    \/ split_for_whisper
    \/ speech_call
    \/ persist_transcription

SpecTranscribe == InitTranscribe /\ [][NextTranscribe]_vars

\* C12: once a transcribe_audio call has returned or raised, whatever the step
\* that ended it, the temp file it staged no longer exists: between calls the
\* temp directory holds no staged file.
C12_TempFileRemoved ==
    tcall.pc \in {"idle", "done"} => tcall.temp \notin temp_files /\ temp_files = {}

\* A call that staged its file and then failed after the upload has ended.
C12_Witness ==
    /\ tcall.pc = "done"
    /\ tcall.temp # 0
    /\ tcall.exc = "RuntimeError"
    /\ outbound.uploads = 1
    /\ tcall.temp \notin temp_files

\* C13: a file is staged, uploaded or transcribed, and a row is persisted, only
\* for a selected agent that exists, is active and is (OPENAI, whisper-1); a
\* request naming a missing or inactive agent, a request without agent_id when
\* no active default exists, and a request whose agent is incompatible each end
\* with ValueError with nothing staged, uploaded, transcribed or persisted.
C13_Usable(id) ==
    /\ id \in DOMAIN agents
    /\ agents[id].is_active
    /\ agents[id].provider = "OPENAI"
    /\ agents[id].model_name = "whisper-1"

C13_Requested ==
    IF tcall.agent_id # NoAgent THEN {tcall.agent_id}
    ELSE {i \in DOMAIN agents : agents[i].is_default /\ agents[i].is_active}

C13_Touched ==
    \/ tcall.temp # 0
    \/ outbound.uploads > 0
    \/ \E i \in DOMAIN outbound.speech : outbound.speech[i] > 0
    \/ tcall.row # 0

C13_OnlyCompatibleActiveAgent ==
    /\ C13_Touched => C13_Usable(tcall.selected) /\ tcall.selected \in C13_Requested
    /\ \A r \in DOMAIN transcriptions : C13_Usable(transcriptions[r].agent_id)
    /\ tcall.pc = "done" /\ tcall.filename /\ ~(\E i \in C13_Requested : C13_Usable(i))
           => tcall.exc = "ValueError" /\ ~C13_Touched

\* An explicit agent of the wrong model (same provider) was turned down.
C13_Witness ==
    /\ tcall.pc = "done"
    /\ tcall.filename
    /\ tcall.agent_id \in DOMAIN agents
    /\ agents[tcall.agent_id].is_active
    /\ agents[tcall.agent_id].provider = "OPENAI"
    /\ agents[tcall.agent_id].model_name # "whisper-1"
    /\ tcall.exc = "ValueError"
    /\ ~C13_Touched

\* C14: every outbound call (the upload, the speech request of each chunk) is
\* attempted at most once; a failed call ends the request with no row; a row is
\* added only by a call whose upload and every speech request succeeded, and
\* its text is the chunks' results in chunk order joined by single spaces.
C14_AtMostOnce ==
    /\ outbound.uploads <= 1
    /\ \A i \in DOMAIN outbound.speech : outbound.speech[i] <= 1

C14_FailedCallHasNoRow ==
    tcall.pc = "done" /\ tcall.exc # "none" => tcall.row = 0

C14_RowOnlyAfterAllSucceeded ==
    transcriptions' # transcriptions =>
        /\ tcall'.pc = "done" /\ tcall'.exc = "none"
        /\ outbound'.uploads = 1
        /\ Len(outbound'.speech) = Len(tcall'.chunks)
        /\ \A i \in DOMAIN outbound'.speech : outbound'.speech[i] = 1
        /\ Len(tcall'.parts) = Len(tcall'.chunks)
        /\ Len(transcriptions') = Len(transcriptions) + 1
        /\ \A r \in DOMAIN transcriptions : transcriptions'[r] = transcriptions[r]
        /\ transcriptions'[Len(transcriptions')].status = "completed"
        /\ transcriptions'[Len(transcriptions')].text_content =
               join(<<" ">>, [i \in 1..Len(tcall'.chunks) |-> SpeechText(i)])

C14_NoRetryNoPartialResult ==
    /\ [](C14_AtMostOnce /\ C14_FailedCallHasNoRow)
    /\ [][C14_RowOnlyAfterAllSucceeded]_vars
    /\ [][tcall'.pc = "done" /\ tcall'.exc # "none" => transcriptions' = transcriptions]_vars

\* The speech request of the second chunk failed after the first succeeded.
C14_Witness ==
    /\ tcall.pc = "done"
    /\ tcall.exc = "RuntimeError"
    /\ Len(tcall.chunks) >= 2
    /\ Len(tcall.parts) = 1
    /\ outbound.speech[2] = 1
    /\ tcall.row = 0

\* ---------------------------------------------------------------------------
\* Roles and users: repositories, services, controllers
\* ---------------------------------------------------------------------------

NumRoles == 2
NumUsers == 2
MaxTime == 3

notDirectoryVars ==
    <<agentVars, reqs, templateVars, substVars, audioVars, pipelineVars, documentTypeVars,
      oidcVars, sessionVars>>

RoleIds == 1..NumRoles
UserIds == 1..NumUsers

\* Ids a request can carry: those of the table and one that no row can have.
RoleIdRequests == 1..(NumRoles + 1)
UserIdRequests == 1..(NumUsers + 1)

RoleNames == {"admin", "notary"}
Descriptions == {"d1", "d2"}
Usernames == {"ana", "bea"}
Emails == {"a@x", "b@x"}

\* An optional argument or a nullable column: None, or a value.
None == [some |-> FALSE, v |-> 0]
SomeInt(v) == [some |-> TRUE, v |-> v]
NoneStr == [some |-> FALSE, v |-> ""]
SomeStr(v) == [some |-> TRUE, v |-> v]
NoneBool == [some |-> FALSE, v |-> FALSE]
SomeBool(v) == [some |-> TRUE, v |-> v]
OptStr(S) == {NoneStr} \cup {SomeStr(v) : v \in S}
OptInt(S) == {None} \cup {SomeInt(v) : v \in S}
OptBool == {NoneBool} \cup {SomeBool(v) : v \in BOOLEAN}

RoleRow(role_name, description, created_at, updated_at) ==
    [role_name |-> role_name, description |-> description,
     created_at |-> created_at, updated_at |-> updated_at]

UserRow(username, email, is_active, role_id) ==
    [username |-> username, email |-> email, is_active |-> is_active, role_id |-> role_id]

\* UserRepository: every read is scoped to active rows.
user_repo_get_by_id_unscoped(db, user_id) ==
    IF user_id \in DOMAIN db THEN user_id ELSE NoId

user_repo_get_by_id(db, user_id) ==
    IF user_id \in DOMAIN db /\ db[user_id].is_active THEN user_id ELSE NoId

First(S) == IF S = {} THEN NoId ELSE CHOOSE i \in S : \A j \in S : i <= j

user_repo_get_by_username(db, username) ==
    First({i \in DOMAIN db : db[i].username = username /\ db[i].is_active})

user_repo_get_by_email(db, email) ==
    First({i \in DOMAIN db : db[i].email = email /\ db[i].is_active})

user_repo_get_all(db) == {i \in DOMAIN db : db[i].is_active}

role_repo_get_by_id(db, role_id) == IF role_id \in DOMAIN db THEN role_id ELSE NoId

role_repo_get_by_name(db, role_name) ==
    First({i \in DOMAIN db : db[i].role_name = role_name})

\* The constraints of table users: unique username, unique email, role_id
\* references a role.
UsersCommitAccepts(db, rolesdb) ==
    /\ \A i, j \in DOMAIN db : i # j => db[i].username # db[j].username
    /\ \A i, j \in DOMAIN db : i # j => db[i].email # db[j].email
    /\ \A i \in DOMAIN db : db[i].role_id \in DOMAIN rolesdb

\* The constraints of table roles: unique role_name; ON DELETE RESTRICT of
\* users.role_id.
RolesCommitAccepts(db, usersdb) ==
    /\ \A i, j \in DOMAIN db : i # j => db[i].role_name # db[j].role_name
    /\ \A u \in DOMAIN usersdb : usersdb[u].role_id \in DOMAIN db

Without(db, id) == [i \in DOMAIN db \ {id} |-> db[i]]

\* A service result: the table after the call and the exception raised.
DirectoryResult(db, exc, id) == [db |-> db, exc |-> exc, id |-> id]

\* UserService.create_user (lines 33-68).
create_user_service(db, rolesdb, username, email, role_id, is_active) ==
    IF user_repo_get_by_username(db, username) # NoId THEN DirectoryResult(db, "ValueError", NoId)
    ELSE IF user_repo_get_by_email(db, email) # NoId THEN DirectoryResult(db, "ValueError", NoId)
    ELSE IF role_repo_get_by_id(rolesdb, role_id) = NoId THEN DirectoryResult(db, "ValueError", NoId)
    ELSE LET id == FreshId(db, UserIds)
             new == Insert(db, id, UserRow(username, email, is_active, role_id))
         IN  IF UsersCommitAccepts(new, rolesdb)
             THEN DirectoryResult(new, "none", id)
             ELSE DirectoryResult(db, "RuntimeError", NoId)

ApplyUserPatch(row, username, email, role_id, is_active) ==
    [username |-> IF username.some THEN username.v ELSE row.username,
     email |-> IF email.some THEN email.v ELSE row.email,
     is_active |-> IF is_active.some THEN is_active.v ELSE row.is_active,
     role_id |-> IF role_id.some THEN role_id.v ELSE row.role_id]

\* UserService.update_user (lines 70-124) over UserRepository.update.
update_user_service(db, rolesdb, user_id, username, email, role_id, is_active) ==
    LET u == IF username.some THEN user_repo_get_by_username(db, username.v) ELSE NoId
        m == IF email.some THEN user_repo_get_by_email(db, email.v) ELSE NoId
    IN  IF u # NoId /\ u # user_id THEN DirectoryResult(db, "ValueError", user_id)
        ELSE IF m # NoId /\ m # user_id THEN DirectoryResult(db, "ValueError", user_id)
        ELSE IF role_id.some /\ role_repo_get_by_id(rolesdb, role_id.v) = NoId
             THEN DirectoryResult(db, "ValueError", user_id)
        ELSE IF ~(username.some \/ email.some \/ role_id.some \/ is_active.some)
             THEN DirectoryResult(db, "ValueError", user_id)
        ELSE IF user_repo_get_by_id(db, user_id) = NoId
             THEN DirectoryResult(db, "RuntimeError", user_id)
        ELSE LET new == [db EXCEPT ![user_id] =
                            ApplyUserPatch(@, username, email, role_id, is_active)]
             IN  IF UsersCommitAccepts(new, rolesdb)
                 THEN DirectoryResult(new, "none", user_id)
                 ELSE DirectoryResult(db, "RuntimeError", user_id)

\* UserService.delete_user (lines 126-139): the ValueError of the missing row
\* is raised inside the try block and caught by `except Exception`.
delete_user_service_unscoped(db, user_id) ==
    IF user_id \notin DOMAIN db
    THEN DirectoryResult(db, "RuntimeError", user_id)
    ELSE DirectoryResult(Without(db, user_id), "none", user_id)

delete_user_service(db, user_id) ==
    IF user_repo_get_by_id(db, user_id) = NoId
    THEN DirectoryResult(db, "RuntimeError", user_id)
    ELSE DirectoryResult(Without(db, user_id), "none", user_id)

\* RoleService.delete_role (lines 65-79), same shape.
delete_role_service(db, usersdb, role_id) ==
    IF role_repo_get_by_id(db, role_id) = NoId
    THEN DirectoryResult(db, "RuntimeError", role_id)
    ELSE IF RolesCommitAccepts(Without(db, role_id), usersdb)
         THEN DirectoryResult(Without(db, role_id), "none", role_id)
         ELSE DirectoryResult(db, "RuntimeError", role_id)

\* The controllers' except clauses.
DirectoryStatus(exc, ok) ==
    CASE exc = "none" -> ok
      [] exc = "ValueError" -> 400
      [] OTHER -> 500

DirectoryAnswer(op, id, exc, status, found, resolved) ==
    [op |-> op, id |-> id, exc |-> exc, status |-> status, found |-> found,
     resolved |-> resolved]

\* ---- users routes ----------------------------------------------------

UserPatch(username, email, role_id, is_active) ==
    [username |-> username, email |-> email, role_id |-> role_id, is_active |-> is_active]

\* The PATCH bodies tried: each names one field.
UserPatches ==
    {UserPatch(u, NoneStr, None, NoneBool) : u \in OptStr(Usernames) \ {NoneStr}} \cup
    {UserPatch(NoneStr, m, None, NoneBool) : m \in OptStr(Emails) \ {NoneStr}} \cup
    {UserPatch(NoneStr, NoneStr, r, NoneBool) : r \in OptInt(RoleIdRequests) \ {None}} \cup
    {UserPatch(NoneStr, NoneStr, None, a) : a \in OptBool \ {NoneBool}}

get_all_users ==
    /\ lastU' = DirectoryAnswer("get_all_users", NoId, "none", 200,
                                user_repo_get_all(users), TRUE)
    /\ UNCHANGED <<roles, users, now, notDirectoryVars>>

get_user_by_id ==
    \E user_id \in UserIdRequests :
        LET u == user_repo_get_by_id(users, user_id)
        IN  /\ lastU' = DirectoryAnswer("get_user_by_id", user_id, "none",
                                        IF u = NoId THEN 404 ELSE 200,
                                        {u} \ {NoId}, u # NoId)
            /\ UNCHANGED <<roles, users, now, notDirectoryVars>>

get_user_by_username ==
    \E username \in Usernames :
        LET u == user_repo_get_by_username(users, username)
        IN  /\ lastU' = DirectoryAnswer("get_user_by_username", NoId, "none", 0,
                                        {u} \ {NoId}, u # NoId)
            /\ UNCHANGED <<roles, users, now, notDirectoryVars>>

get_user_by_email ==
    \E email \in Emails :
        LET u == user_repo_get_by_email(users, email)
        IN  /\ lastU' = DirectoryAnswer("get_user_by_email", NoId, "none", 0,
                                        {u} \ {NoId}, u # NoId)
            /\ UNCHANGED <<roles, users, now, notDirectoryVars>>

create_user ==
    /\ DOMAIN users # UserIds
    /\ \E username \in Usernames, email \in Emails, role_id \in RoleIdRequests,
          is_active \in BOOLEAN :
        LET r == create_user_service(users, roles, username, email, role_id, is_active)
        IN  /\ users' = r.db
            /\ lastU' = DirectoryAnswer("create_user", r.id, r.exc,
                                        DirectoryStatus(r.exc, 201), {}, TRUE)
    /\ UNCHANGED <<roles, now, notDirectoryVars>>

update_user ==
    /\ \E user_id \in UserIdRequests, body \in UserPatches :
        LET r == update_user_service(users, roles, user_id, body.username, body.email,
                                     body.role_id, body.is_active)
        IN  /\ users' = r.db
            /\ lastU' = DirectoryAnswer("update_user", user_id, r.exc,
                                        DirectoryStatus(r.exc, 200), {},
                                        user_repo_get_by_id(users, user_id) # NoId)
    /\ UNCHANGED <<roles, now, notDirectoryVars>>

delete_user ==
    /\ \E user_id \in UserIdRequests :
        LET r == delete_user_service(users, user_id)
        IN  /\ users' = r.db
            /\ lastU' = DirectoryAnswer("delete_user", user_id, r.exc,
                                        DirectoryStatus(r.exc, 204), {},
                                        user_id \in DOMAIN users /\ users[user_id].is_active)
    /\ UNCHANGED <<roles, now, notDirectoryVars>>

delete_role ==
    /\ \E role_id \in RoleIdRequests :
        LET r == delete_role_service(roles, users, role_id)
        IN  /\ roles' = r.db
            /\ lastU' = DirectoryAnswer("delete_role", role_id, r.exc,
                                        DirectoryStatus(r.exc, 204), {},
                                        role_id \in DOMAIN roles)
    /\ UNCHANGED <<users, now, notDirectoryVars>>

\* The roles the users refer to: one stored role per id.
StoredRoleName(i) ==
    CASE i = 1 -> "admin"
      [] i = 2 -> "notary"
      [] OTHER -> "clerk"

RoleCatalogue == [i \in RoleIds |-> RoleRow(StoredRoleName(i), NoneStr, 0, 0)]

InitUsers ==
    /\ InitAgents
    /\ InitReqsIdle
    /\ InitTemplates
    /\ InitSubstIdle
    /\ InitAudioIdle
    /\ InitPipelineIdle
    /\ InitDocumentTypesIdle
    /\ InitOidcIdle
    /\ InitSessionsIdle
    /\ roles = RoleCatalogue
    /\ users = << >>
    /\ now = 0
    /\ lastU = NoDirectoryRequest

NextUsers ==
    \/ get_all_users
    \/ get_user_by_id
    \/ get_user_by_username
    \/ get_user_by_email
    \/ create_user
    \/ update_user
    \/ delete_user
    \/ delete_role

SpecUsers == InitUsers /\ [][NextUsers]_vars

\* C15: a stored user whose is_active is false is returned by none of
\* get_all_users, get_user_by_id, get_user_by_username, get_user_by_email:
\* everything these return is a stored row with is_active true, although the
\* inactive row is still in the table.
C15_Readers ==
    {"get_all_users", "get_user_by_id", "get_user_by_username", "get_user_by_email"}

C15_InactiveUsersInvisible ==
    lastU.op \in C15_Readers =>
        /\ \A i \in lastU.found : i \in DOMAIN users /\ users[i].is_active
        /\ lastU.op = "get_user_by_id" /\ lastU.id \in DOMAIN users
               /\ ~users[lastU.id].is_active => lastU.found = {} /\ lastU.status = 404

\* get_all_users answered with the active user while an inactive one is stored.
C15_Witness ==
    /\ lastU.op = "get_all_users"
    /\ lastU.found # {}
    /\ \E i \in DOMAIN users : ~users[i].is_active /\ i \notin lastU.found

\* C20: DELETE /api/roles/{id} or /api/users/{id} with an id that resolves to
\* no (visible) row is answered 404, not 500.
C20_DeleteOfMissingRowIs404 ==
    lastU.op \in {"delete_role", "delete_user"} /\ ~lastU.resolved => lastU.status = 404

\* ---- roles routes ----------------------------------------------------

\* RoleService.create_role (lines 23-34); t is the clock read by the defaults.
create_role_service(db, usersdb, role_name, description, t) ==
    IF role_repo_get_by_name(db, role_name) # NoId THEN DirectoryResult(db, "ValueError", NoId)
    ELSE LET id == FreshId(db, RoleIds)
             new == Insert(db, id, RoleRow(role_name, description, t, t))
         IN  IF RolesCommitAccepts(new, usersdb)
             THEN DirectoryResult(new, "none", id)
             ELSE DirectoryResult(db, "RuntimeError", NoId)

ApplyRolePatchEveryKey(row, role_name, description) ==
    [row EXCEPT !.role_name = role_name.v, !.description = description]

\* RoleRepository.update lines 33-35: the keys of update_data are set.
ApplyRolePatch(row, role_name, description) ==
    [row EXCEPT !.role_name = IF role_name.some THEN role_name.v ELSE @,
                !.description = IF description.some THEN description ELSE @]

\* onupdate of updated_at: stamped when the commit writes a changed row.
Touch(old, new, t) == IF new = old THEN old ELSE [new EXCEPT !.updated_at = t]

\* RoleService.update_role (lines 36-63) over RoleRepository.update.
update_role_service(db, usersdb, role_id, role_name, description, t) ==
    LET existing == IF role_name.some THEN role_repo_get_by_name(db, role_name.v) ELSE NoId
    IN  IF existing # NoId /\ existing # role_id THEN DirectoryResult(db, "ValueError", role_id)
        ELSE IF ~(role_name.some \/ description.some)
             THEN DirectoryResult(db, "ValueError", role_id)
        ELSE IF role_repo_get_by_id(db, role_id) = NoId
             THEN DirectoryResult(db, "RuntimeError", role_id)
        ELSE LET new == [db EXCEPT ![role_id] =
                            Touch(@, ApplyRolePatch(@, role_name, description), t)]
             IN  IF RolesCommitAccepts(new, usersdb)
                 THEN DirectoryResult(new, "none", role_id)
                 ELSE DirectoryResult(db, "RuntimeError", role_id)

RoleAnswer(op, id, exc, status, resolved, role_name, description) ==
    [op |-> op, id |-> id, exc |-> exc, status |-> status, found |-> {},
     resolved |-> resolved, role_name |-> role_name, description |-> description]

create_role ==
    /\ DOMAIN roles # RoleIds
    /\ now < MaxTime
    /\ now' = now + 1
    /\ \E role_name \in RoleNames, description \in OptStr(Descriptions) :
        LET r == create_role_service(roles, users, role_name, description, now')
        IN  /\ roles' = r.db
            /\ lastU' = RoleAnswer("create_role", r.id, r.exc, DirectoryStatus(r.exc, 201),
                                   TRUE, SomeStr(role_name), description)
    /\ UNCHANGED <<users, notDirectoryVars>>

update_role ==
    /\ now < MaxTime
    /\ now' = now + 1
    /\ \E role_id \in RoleIdRequests, role_name \in OptStr(RoleNames),
          description \in OptStr(Descriptions) :
        /\ role_name.some \/ description.some
        /\ LET r == update_role_service(roles, users, role_id, role_name, description, now')
           IN  /\ roles' = r.db
               /\ lastU' = RoleAnswer("update_role", role_id, r.exc,
                                      DirectoryStatus(r.exc, 200), role_id \in DOMAIN roles,
                                      role_name, description)
    /\ UNCHANGED <<users, notDirectoryVars>>

InitRoles ==
    /\ InitAgents
    /\ InitReqsIdle
    /\ InitTemplates
    /\ InitSubstIdle
    /\ InitAudioIdle
    /\ InitPipelineIdle
    /\ InitDocumentTypesIdle
    /\ InitOidcIdle
    /\ InitSessionsIdle
    /\ InitDirectoryIdle

NextRoles ==
    \/ create_role
    \/ update_role
    \/ delete_role

SpecRoles == InitRoles /\ [][NextRoles]_vars

\* C16: update_role given a description and no role_name leaves the role's
\* role_name and created_at as they were and the set of role ids and every
\* other role unchanged; when it succeeds the role's description is the one
\* supplied and nothing but description and updated_at differs.
C16_DescriptionOnly ==
    /\ lastU'.op = "update_role"
    /\ ~lastU'.role_name.some
    /\ lastU'.description.some

C16_Frame ==
    C16_DescriptionOnly =>
        /\ DOMAIN roles' = DOMAIN roles
        /\ \A j \in DOMAIN roles : j # lastU'.id => roles'[j] = roles[j]
        /\ lastU'.id \in DOMAIN roles =>
              /\ roles'[lastU'.id].role_name = roles[lastU'.id].role_name
              /\ roles'[lastU'.id].created_at = roles[lastU'.id].created_at
              /\ lastU'.exc = "none" => roles'[lastU'.id].description = lastU'.description
              /\ lastU'.exc # "none" => roles'[lastU'.id] = roles[lastU'.id]

C16_PartialUpdateKeepsRoleName == [][C16_Frame]_vars

\* A description-only update changed the description of one of two roles.
C16_Witness ==
    /\ lastU.op = "update_role"
    /\ lastU.exc = "none"
    /\ ~lastU.role_name.some
    /\ lastU.description.some
    /\ lastU.id \in DOMAIN roles
    /\ roles[lastU.id].description = lastU.description
    /\ roles[lastU.id].updated_at > roles[lastU.id].created_at
    /\ \E j \in DOMAIN roles : j # lastU.id

\* ---------------------------------------------------------------------------
\* Document types: repository, service, controller
\* ---------------------------------------------------------------------------

NumDocumentTypes == 2

notDocumentTypeVars ==
    <<agentVars, reqs, templateVars, substVars, audioVars, pipelineVars, roles, users, lastU,
      oidcVars, sessionVars>>

DocumentTypeIds == 1..NumDocumentTypes

\* type_name values of a request body: absent, empty, two names, and a name of
\* 101 characters.
LongTypeName == "a name of 101 characters"
TypeNames == {"", "deed", "will", LongTypeName}

Length(type_name) ==
    CASE type_name = "" -> 0
      [] type_name = LongTypeName -> 101
      [] OTHER -> 4

DocumentTypeRow(type_name, description, created_at, updated_at) ==
    [type_name |-> type_name, description |-> description,
     created_at |-> created_at, updated_at |-> updated_at]

\* DocumentTypeCreateSchema.validate: type_name required, 1..100 characters.
create_schema_errors(body) ==
    ~body.type_name.some \/ Length(body.type_name.v) < 1 \/ Length(body.type_name.v) > 100

document_type_repo_get_by_name_none(db, type_name) == NoId

document_type_repo_get_by_name(db, type_name) ==
    First({i \in DOMAIN db : db[i].type_name = type_name})

\* unique=True on type_name: constraint document_types_type_name_key.
TypeNameUnique(db) == \A i, j \in DOMAIN db : i # j => db[i].type_name # db[j].type_name

DocumentTypeResult(db, exc, message, id) ==
    [db |-> db, exc |-> exc, message |-> message, id |-> id]

\* DocumentTypeRepository.create (lines 44-78).
document_type_repo_create(db, body, t) ==
    LET id == FreshId(db, DocumentTypeIds)
        new == Insert(db, id, DocumentTypeRow(body.type_name.v, body.description, t, t))
    IN  IF TypeNameUnique(new) THEN DocumentTypeResult(new, "none", "none", id)
        ELSE DocumentTypeResult(db, "ValueError", "duplicate", NoId)

\* DocumentTypeService.create_document_type (lines 54-86): whatever the
\* repository raises is wrapped in a RuntimeError.
create_document_type_service(db, body, t) ==
    IF create_schema_errors(body) THEN DocumentTypeResult(db, "ValueError", "invalid", NoId)
    ELSE IF document_type_repo_get_by_name(db, body.type_name.v) # NoId
         THEN DocumentTypeResult(db, "ValueError", "duplicate", NoId)
    ELSE LET r == document_type_repo_create(db, body, t)
         IN  IF r.exc = "none" THEN r
             ELSE DocumentTypeResult(db, "RuntimeError", "storage", NoId)

DocumentTypeBodies ==
    {[type_name |-> n, description |-> d] : n \in OptStr(TypeNames), d \in OptStr(Descriptions)}

create_document_type ==
    /\ now < MaxTime
    /\ \E body \in DocumentTypeBodies :
        LET r == create_document_type_service(document_types, body, now + 1)
        IN  /\ \/ DOMAIN document_types # DocumentTypeIds
               \/ create_schema_errors(body)
               \/ document_type_repo_get_by_name(document_types, body.type_name.v) # NoId
            /\ document_types' = r.db
            /\ now' = IF r.exc = "none" THEN now + 1 ELSE now
            /\ lastD' = [op |-> "create_document_type", exc |-> r.exc, message |-> r.message,
                         status |-> DirectoryStatus(r.exc, 201), id |-> r.id,
                         type_name |-> body.type_name.v]
    /\ UNCHANGED <<creating, notDocumentTypeVars>>

\* DocumentTypeService.delete_document_type (lines 151-185); no document or
\* template refers to a document type here, so the commit is accepted.
delete_document_type_service(db, id) ==
    IF id \notin DOMAIN db THEN DocumentTypeResult(db, "ValueError", "not found", id)
    ELSE DocumentTypeResult(Without(db, id), "none", "none", id)

delete_document_type ==
    /\ \E id \in 1..(NumDocumentTypes + 1) :
        LET r == delete_document_type_service(document_types, id)
        IN  /\ document_types' = r.db
            /\ lastD' = [op |-> "delete_document_type", exc |-> r.exc, message |-> r.message,
                         status |-> IF r.exc = "none" THEN 204
                                    ELSE IF r.exc = "ValueError" THEN 404 ELSE 500,
                         id |-> id, type_name |-> ""]
    /\ UNCHANGED <<now, creating, notDocumentTypeVars>>

InitDocumentTypes ==
    /\ InitAgents
    /\ InitReqsIdle
    /\ InitTemplates
    /\ InitSubstIdle
    /\ InitAudioIdle
    /\ InitExtraIdle

NextDocumentTypes ==
    \/ create_document_type
    \/ delete_document_type

SpecDocumentTypes == InitDocumentTypes /\ [][NextDocumentTypes]_vars

\* C17: create_document_type with a type_name that a stored row already has
\* fails with the duplicate-name ValueError (not the RuntimeError of a storage
\* failure) and leaves the table, the first row included, as it was; with a
\* valid type_name that no row has it succeeds and adds exactly that row; at
\* all times at most one row has a given type_name.
C17_Taken ==
    \E i \in DOMAIN document_types : document_types[i].type_name = lastD'.type_name

C17_CreateStep ==
    lastD'.op = "create_document_type" /\ lastD'.message # "invalid" =>
        IF C17_Taken
        THEN /\ lastD'.exc = "ValueError"
             /\ lastD'.message = "duplicate"
             /\ document_types' = document_types
        ELSE /\ lastD'.exc = "none"
             /\ lastD'.id \notin DOMAIN document_types
             /\ DOMAIN document_types' = DOMAIN document_types \cup {lastD'.id}
             /\ document_types'[lastD'.id].type_name = lastD'.type_name
             /\ \A i \in DOMAIN document_types : document_types'[i] = document_types[i]

C17_DuplicateTypeNameRejected ==
    /\ [][C17_CreateStep]_vars
    /\ [](\A i, j \in DOMAIN document_types :
              document_types[i].type_name = document_types[j].type_name => i = j)

\* The second create of a name was turned down while the first row is stored
\* and room for another row was left.
C17_Witness ==
    /\ lastD.op = "create_document_type"
    /\ lastD.exc = "ValueError"
    /\ lastD.message = "duplicate"
    /\ Cardinality({i \in DOMAIN document_types :
                       document_types[i].type_name = lastD.type_name}) = 1
    /\ DOMAIN document_types # DocumentTypeIds

\* ---------------------------------------------------------------------------
\* Authentication routes: /login and /oidc_callback
\* ---------------------------------------------------------------------------

notOidcVars ==
    <<agentVars, reqs, templateVars, substVars, audioVars, pipelineVars, directoryVars,
      documentTypeVars, sessionVars>>

SessionValue(v) == [some |-> TRUE, v |-> v]

\* request.args.get("code"): absent, empty, or an authorization code.
CodeParams == {NoSessionValue, SessionValue(""), SessionValue("c1"), SessionValue("c2")}

\* The token pairs the identity provider answers an exchange with.
AccessTokens == {"a1", "a2", "a3"}
RefreshTokens == {"r1", "r2", "r3"}

\* The values of next_url a session can hold when the callback is reached.
NextUrls == {NoSessionValue, SessionValue(""), SessionValue("/api/documents")}

\* Python truthiness of an optional string.
Truthy(x) == x.some /\ x.v # ""

Response(op, code, status, body, location, stashed) ==
    [op |-> op, code |-> code, status |-> status, body |-> body, location |-> location,
     stashed |-> stashed]

login ==
    /\ lastO' = Response("login", NoSessionValue, 302, "", "auth_url", session.next_url)
    /\ UNCHANGED <<session, notOidcVars>>

\* callback(), lines 37-51. keycloak_openid.token either returns a token pair
\* or raises, which no handler of the route catches.
callback ==
    /\ \E code \in CodeParams :
        IF Truthy(code)
        THEN \/ \E a \in AccessTokens, r \in RefreshTokens :
                 LET s1 == [session EXCEPT !.access_token = SessionValue(a),
                                           !.refresh_token = SessionValue(r),
                                           !.next_url = NoSessionValue]
                 IN  /\ session' = s1
                     /\ lastO' = IF Truthy(session.next_url)
                                 THEN Response("callback", code, 302, "", session.next_url.v,
                                               session.next_url)
                                 ELSE Response("callback", code, 400, "Authorization failed",
                                               "", session.next_url)
             \/ /\ lastO' = Response("callback", code, 500, "", "", session.next_url)
                /\ UNCHANGED session
        ELSE /\ lastO' = Response("callback", code, 400, "Authorization failed", "",
                                  session.next_url)
             /\ UNCHANGED session
    /\ UNCHANGED notOidcVars

InitOidc ==
    /\ InitAgents
    /\ InitReqsIdle
    /\ InitTemplates
    /\ InitSubstIdle
    /\ InitAudioIdle
    /\ InitPipelineIdle
    /\ InitDirectoryIdle
    /\ InitDocumentTypesIdle
    /\ InitSessionsIdle
    /\ \E n \in NextUrls : session = [EmptySession EXCEPT !.next_url = n]
    /\ lastO = NoResponse

NextOidc ==
    \/ login
    \/ callback

SpecOidc == InitOidc /\ [][NextOidc]_vars

\* C19: /oidc_callback answers 400 "Authorization failed" exactly when the
\* request carries no code; with a code whose exchange succeeded and nothing
\* stashed under next_url it completes without an error status.
C19_FailsOnlyWithoutCode ==
    lastO.op = "callback" =>
        /\ lastO.status = 400 <=> ~lastO.code.some
        /\ lastO.code.some /\ session.access_token.some /\ ~lastO.stashed.some
               => lastO.status < 400

\* ---------------------------------------------------------------------------
\* Database sessions of the requests: before_request / route / teardown
\* ---------------------------------------------------------------------------

MaxRequests == 2

notSessionVars ==
    <<agentVars, reqs, templateVars, substVars, audioVars, pipelineVars, directoryVars,
      documentTypeVars, oidcVars>>

\* The route groups by the way they come to a session: "g" stands for the
\* groups whose before_request stores next(get_db()) in g.db_session (roles,
\* users, templates, sections, compositions, documents).
Groups == {"g", "transcribe", "ai_agents", "document_types"}

RequestIds == 1..MaxRequests

\* A session: the request it was created for, the requests that used it,
\* whether it is unused, in use, or closed, and whether the get_db generator
\* that made it still awaits finalization.
DbSession(owner, state, generator) ==
    [owner |-> owner, users |-> {}, state |-> state, generator |-> generator]

\* SessionLocal() inside get_db: next() returns the session and leaves the
\* generator suspended at its yield.
get_db(sessions, owner) == Append(sessions, DbSession(owner, "new", TRUE))

use(sessions, s, request) ==
    [sessions EXCEPT ![s].state = "active", ![s].users = @ \cup {request}]

close(sessions, s) == [sessions EXCEPT ![s].state = "closed"]

scope_of_process(w) == "process"

\* The scope of db.session: the application context of the request a worker
\* is serving.
scope_of(w) == w

\* db.session.<anything>: the registry's session of the current scope, made
\* on first use.
scoped_session(sessions, reg, scope, request) ==
    IF scope \in DOMAIN reg
    THEN [sessions |-> use(sessions, reg[scope], request), registry |-> reg]
    ELSE LET made == Append(sessions, DbSession(request, "new", FALSE))
         IN  [sessions |-> use(made, Len(made), request),
              registry |-> [k \in DOMAIN reg \cup {scope} |->
                               IF k = scope THEN Len(made) ELSE reg[k]]]

\* db.session.remove() at the end of the application context.
scoped_remove(sessions, reg, scope) ==
    IF scope \in DOMAIN reg
    THEN [sessions |-> close(sessions, reg[scope]),
          registry |-> [k \in DOMAIN reg \ {scope} |-> reg[k]]]
    ELSE [sessions |-> sessions, registry |-> reg]

begin_request(w) ==
    /\ http[w].pc = "idle"
    /\ served < MaxRequests
    /\ served' = served + 1
    /\ \E group \in Groups :
        http' = [http EXCEPT ![w] =
                    [NoHttpRequest EXCEPT !.pc = IF group = "document_types" THEN "route"
                                                 ELSE "before_request",
                                          !.id = served + 1, !.group = group]]
    /\ UNCHANGED <<db_sessions, registry, notSessionVars>>

\* The before_request hook of the group. The hook of the transcribe group can
\* raise after it stored the session; the 500 handler then calls
\* db.session.rollback().
before_request(w) ==
    /\ http[w].pc = "before_request"
    /\ IF http[w].group = "ai_agents"
       THEN /\ http' = [http EXCEPT ![w].pc = "route"]
            /\ UNCHANGED <<db_sessions, registry>>
       ELSE LET made == get_db(db_sessions, http[w].id)
                handled == scoped_session(made, registry, scope_of(w), http[w].id)
            IN  \/ /\ db_sessions' = made
                   /\ http' = [http EXCEPT ![w].pc = "route", ![w].g_db_session = Len(made)]
                   /\ UNCHANGED registry
                \/ /\ http[w].group = "transcribe"
                   /\ db_sessions' = handled.sessions
                   /\ registry' = handled.registry
                   /\ http' = [http EXCEPT ![w].pc = "teardown", ![w].failed = TRUE,
                                           ![w].g_db_session = Len(made)]
    /\ UNCHANGED <<served, notSessionVars>>

\* The abandoned generator of next(get_db()) is finalized: its finally block
\* closes the session.
finalize_generator ==
    /\ \E s \in DOMAIN db_sessions :
        /\ db_sessions[s].generator
        /\ db_sessions' = [close(db_sessions, s) EXCEPT ![s].generator = FALSE]
    /\ UNCHANGED <<http, registry, served, notSessionVars>>

\* The sessions after the route's work, by group.
route_sessions(w) ==
    LET r == http[w]
    IN  CASE r.group = "g" ->
                [sessions |-> use(db_sessions, r.g_db_session, r.id), registry |-> registry]
          [] r.group = "document_types" ->
                LET made == get_db(db_sessions, r.id)
                IN  [sessions |-> close(use(made, Len(made), r.id), Len(made)),
                     registry |-> registry]
          [] OTHER -> scoped_session(db_sessions, registry, scope_of(w), r.id)

\* The route function; an exception it lets escape reaches the 500 handler,
\* which calls db.session.rollback().
route(w) ==
    /\ http[w].pc = "route"
    /\ \E unhandled \in BOOLEAN :
        LET after == route_sessions(w)
            final == IF unhandled
                     THEN scoped_session(after.sessions, after.registry, scope_of(w),
                                         http[w].id)
                     ELSE after
        IN  /\ db_sessions' = final.sessions
            /\ registry' = final.registry
            /\ http' = [http EXCEPT ![w].pc = "teardown", ![w].failed = unhandled]
    /\ UNCHANGED <<served, notSessionVars>>

\* teardown_request of the group, then the removal of the scoped session.
teardown(w) ==
    /\ http[w].pc = "teardown"
    /\ LET closed == IF http[w].g_db_session # 0
                     THEN close(db_sessions, http[w].g_db_session)
                     ELSE db_sessions
           after == scoped_remove(closed, registry, scope_of(w))
       IN  /\ db_sessions' = after.sessions
           /\ registry' = after.registry
    /\ http' = [http EXCEPT ![w] = NoHttpRequest]
    /\ UNCHANGED <<served, notSessionVars>>

InitSessions ==
    /\ InitAgents
    /\ InitReqsIdle
    /\ InitTemplates
    /\ InitSubstIdle
    /\ InitAudioIdle
    /\ InitPipelineIdle
    /\ InitDirectoryIdle
    /\ InitDocumentTypesIdle
    /\ InitOidcIdle
    /\ db_sessions = << >>
    /\ http = [w \in Workers |-> NoHttpRequest]
    /\ registry = << >>
    /\ served = 0

NextSessions ==
    \/ \E w \in Workers : begin_request(w)
    \/ \E w \in Workers : before_request(w)
    \/ finalize_generator
    \/ \E w \in Workers : route(w)
    \/ \E w \in Workers : teardown(w)

SpecSessions == InitSessions /\ [][NextSessions]_vars

\* C18: a session is used by the one request it was made for and by no other;
\* a session whose request has ended is closed; a request that reached its
\* route has a session of its own by the time the route has run.
C18_InFlight == {http[w].id : w \in Workers} \ {0}

Succeeded(l) == l.op # "none" /\ l.exc = "none" /\ l.status \in {200, 201, 204}

\* C24: from a state in which some active agent is the default, every
\* successful create_agent, update_agent or delete_agent leaves at least one
\* agent that is both active and default, as long as any agent row remains.
C24_ActiveDefaultKept ==
    (/\ Succeeded(last)
     /\ ActiveDefaults(last.before) # {}
     /\ DOMAIN agents # {})
    => ActiveDefaults(agents) # {}

\* C25: a create_agent that raised leaves the stored agents, and so the
\* is_default flag of every existing row, as they were before the call.
C25_FailedCreateChangesNothing ==
    (last.op = "create" /\ last.exc # "none") => agents = last.before

\* =====================================================================
\* Placeholder substitution: one pass, whatever the order of the keys
\* =====================================================================

\* data.items() yields the keys of the request's JSON object in the order
\* they were written: any enumeration of the keys.
ItemOrders(data) ==
    {o \in [1..Cardinality(DOMAIN data) -> DOMAIN data] :
        \A i, j \in DOMAIN o : i # j => o[i] # o[j]}

\* {str(k): str(v) for k, v in data.items()} built key by key in the order
\* of the items, a later key replacing an equal earlier one.
RECURSIVE dict_comprehension(_, _)
dict_comprehension(data, order) ==
    IF order = << >> THEN << >>
    ELSE LET k == order[Len(order)]
         IN  (k :> str(data[k]))
                @@ dict_comprehension(data, SubSeq(order, 1, Len(order) - 1))

\* _replace_placeholders on a data map whose items come in the given order.
replace_placeholders_in_order(text, data, order) ==
    re_sub(text, 1, dict_comprehension(data, order))

\* C26: substitution is one pass that does not look again at what it put
\* in: with {x: "{{y}}", y: "v"} the text "{{x}}" becomes "{{y}}", not "v",
\* and in general each placeholder that is a key becomes the key's value as
\* written; the result is the same for every order of the keys of the map.
C26_SinglePassAnyKeyOrder ==
    replaced.done =>
        /\ (/\ tokens = <<Ph(<<"x">>)>>
            /\ DOMAIN dynamic_data = {<<"x">>, <<"y">>}
            /\ dynamic_data[<<"x">>] = JStr(<<"{", "{", "y", "}", "}">>))
           => replaced.text = <<"{", "{", "y", "}", "}">>
        /\ PlainLiterals(tokens) => replaced.text = C9_Expected(tokens, dynamic_data)
        /\ \A o \in ItemOrders(dynamic_data) :
              replace_placeholders_in_order(content, dynamic_data, o) = replaced.text

\* C26's case: "{{x}}" went through substitution with {x: "{{y}}", y: "v"},
\* a map whose two keys can come in two orders, and came out as "{{y}}".
C26_Witness ==
    /\ replaced.done
    /\ tokens = <<Ph(<<"x">>)>>
    /\ dynamic_data = (<<"x">> :> JStr(<<"{", "{", "y", "}", "}">>)) @@ (<<"y">> :> JStr(<<"v">>))
    /\ Cardinality(ItemOrders(dynamic_data)) = 2
    /\ replaced.text = <<"{", "{", "y", "}", "}">>

\* =====================================================================
\* Users: an inactive user through the service layer
\* =====================================================================

InactiveUsers(db) == {i \in DOMAIN db : ~db[i].is_active}

\* An id that no stored user has.
MissingUserId == NumUsers + 1

\* update_user and delete_user on the id of an inactive user end as they do
\* on an id that no row has: the same exception, the table as it was.
C27_AsIfMissing ==
    \A i \in InactiveUsers(users) :
        /\ \A body \in UserPatches :
              LET r == update_user_service(users, roles, i, body.username, body.email,
                                           body.role_id, body.is_active)
                  m == update_user_service(users, roles, MissingUserId, body.username,
                                           body.email, body.role_id, body.is_active)
              IN  r.exc = m.exc /\ r.exc # "none" /\ r.db = users
        /\ LET r == delete_user_service(users, i)
               m == delete_user_service(users, MissingUserId)
           IN  r.exc = m.exc /\ r.exc # "none" /\ r.db = users

\* The username and the email of an inactive user cannot be taken: creating
\* a user with either fails and stores nothing, and no other row has them.
C27_StillOccupied ==
    \A i \in InactiveUsers(users) :
        /\ \A j \in DOMAIN users \ {i} :
              users[j].username # users[i].username /\ users[j].email # users[i].email
        /\ \A username \in Usernames, email \in Emails, role_id \in RoleIdRequests,
              is_active \in BOOLEAN :
              (username = users[i].username \/ email = users[i].email)
                 /\ DOMAIN users # UserIds
              => LET r == create_user_service(users, roles, username, email, role_id,
                                              is_active)
                 IN  r.exc # "none" /\ r.db = users

\* What a request leaves of the inactive users: each is still stored, with
\* every column as before, and is not part of what the request returned.
C27_Step ==
    \A i \in InactiveUsers(users) :
        /\ i \in DOMAIN users'
        /\ users'[i] = users[i]
        /\ i \notin lastU'.found

\* C27: once a user has is_active = false it stays so and stays stored: no
\* get, create, update or delete of the service layer returns it, reactivates
\* it, changes it or deletes it (update_user and delete_user on its id end as
\* for an id that no user has), and its username and email stay occupied.
C27_InactiveUserIsFrozen ==
    /\ [](C27_AsIfMissing /\ C27_StillOccupied)
    /\ [][C27_Step]_vars

\* C27's case: DELETE of an inactive user was refused and the user is still
\* stored, while an active user is stored beside it.
C27_Witness ==
    /\ lastU.op = "delete_user"
    /\ lastU.id \in InactiveUsers(users)
    /\ lastU.exc # "none"
    /\ user_repo_get_all(users) # {}

\* =====================================================================
\* Document types: two create_document_type requests at once
\* =====================================================================

\* A create_document_type request of a worker: where it is, the body, whether
\* its pre-check found no row of the name, and how it ended.
CreateRequest(pc, body, passed, exc, message, status) ==
    [pc |-> pc, body |-> body, passed |-> passed, exc |-> exc, message |-> message,
     status |-> status]

NoBody == [type_name |-> NoneStr, description |-> NoneStr]

IdleCreateRequest == CreateRequest("idle", NoBody, FALSE, "none", "none", 0)

\* The tables the requests start from: empty, or one stored type.
StoredDocumentTypes ==
    {<< >>} \cup {1 :> DocumentTypeRow(n, NoneStr, 0, 0) : n \in {"deed", "will"}}

InitCreating ==
    /\ InitAgents
    /\ InitReqsIdle
    /\ InitTemplates
    /\ InitSubstIdle
    /\ InitAudioIdle
    /\ InitPipelineIdle
    /\ InitDirectoryIdle
    /\ InitOidcIdle
    /\ InitSessionsIdle
    /\ document_types \in StoredDocumentTypes
    /\ lastD = NoDocumentTypeRequest
    /\ creating = [w \in Workers |-> IdleCreateRequest]

\* create_document_type up to the repository's create: the schema validation
\* and the get_by_name pre-check, a read of the committed table.
check_type_name(w) ==
    \E body \in DocumentTypeBodies :
        /\ creating[w].pc = "idle"
        /\ creating' = [creating EXCEPT ![w] =
              IF create_schema_errors(body)
              THEN CreateRequest("done", body, FALSE, "ValueError", "invalid", 400)
              ELSE IF document_type_repo_get_by_name(document_types, body.type_name.v) # NoId
              THEN CreateRequest("done", body, FALSE, "ValueError", "duplicate", 400)
              ELSE CreateRequest("insert", body, TRUE, "none", "none", 0)]
        /\ UNCHANGED <<document_types, lastD, now, notDocumentTypeVars>>

\* self.document_type_repo.create(...) inside the service's try block, and the
\* controller's answer: the repository's ValueError for the violated unique
\* constraint is caught by `except Exception` and raised again as RuntimeError.
insert_document_type(w) ==
    LET c == creating[w]
        r == document_type_repo_create(document_types, c.body, now + 1)
        exc == IF r.exc = "none" THEN "none" ELSE "RuntimeError"
    IN  /\ c.pc = "insert"
        /\ now < MaxTime
        /\ DOMAIN document_types # DocumentTypeIds
        /\ document_types' = r.db
        /\ now' = IF r.exc = "none" THEN now + 1 ELSE now
        /\ creating' = [creating EXCEPT ![w] =
              CreateRequest("done", c.body, TRUE, exc,
                            IF r.exc = "none" THEN "none" ELSE "storage",
                            DirectoryStatus(exc, 201))]
        /\ UNCHANGED <<lastD, notDocumentTypeVars>>

NextCreating == \E w \in Workers : check_type_name(w) \/ insert_document_type(w)

SpecCreating == InitCreating /\ [][NextCreating]_vars

\* Both requests passed the pre-check with the same type_name and are done.
C29_Raced(v, w) ==
    /\ v # w
    /\ creating[v].pc = "done" /\ creating[w].pc = "done"
    /\ creating[v].passed /\ creating[w].passed
    /\ creating[v].body.type_name = creating[w].body.type_name

\* C29: of two create_document_type requests with the same type_name that
\* both passed the pre-check, whatever the interleaving, at most one row of
\* the name is stored, exactly one request succeeds, and the other is
\* answered as a duplicate name (ValueError, 400), not as a storage failure.
C29_LoserIsDuplicateName ==
    \A v, w \in Workers :
        C29_Raced(v, w) /\ creating[v].exc = "none" =>
            /\ Cardinality({i \in DOMAIN document_types :
                   document_types[i].type_name = creating[v].body.type_name.v}) = 1
            /\ creating[w].exc = "ValueError"
            /\ creating[w].status = 400

\* The parts of C29 that hold: one row of the name, one request succeeded.
C29_OneRowOneWinner ==
    \A v, w \in Workers :
        C29_Raced(v, w) =>
            /\ Cardinality({i \in DOMAIN document_types :
                   document_types[i].type_name = creating[v].body.type_name.v}) = 1
            /\ (creating[v].exc = "none") # (creating[w].exc = "none")

\* =====================================================================
\* Templates: rename and removal
\* =====================================================================

\* TemplateRepository.get_by_name
template_repo_get_by_name(ts, name) ==
    First({i \in DOMAIN ts : ts[i].template_name = name})

\* PATCH bodies: with a template_name, or with other fields alone.
TemplateUpdateBodies ==
    {[has_name |-> TRUE, template_name |-> n] : n \in TemplateNames}
        \cup {[has_name |-> FALSE, template_name |-> NoId]}

\* TemplateRepository.update: setattr, commit; the IntegrityError of
\* templates_template_name_key rolls back and becomes a ValueError.
template_repo_update(ts, id, body) ==
    LET new == [ts EXCEPT ![id] =
                   IF body.has_name THEN [@ EXCEPT !.template_name = body.template_name]
                   ELSE @]
    IN  IF TemplateNameUnique(new) THEN [db |-> new, exc |-> "none"]
        ELSE [db |-> ts, exc |-> "ValueError"]

\* TemplateService.update_template
update_template_service(ts, id, body) ==
    IF id \notin DOMAIN ts THEN [db |-> ts, exc |-> "none", found |-> FALSE]
    ELSE LET existing_template ==
                IF body.has_name /\ body.template_name # ts[id].template_name
                THEN template_repo_get_by_name(ts, body.template_name)
                ELSE NoId
         IN  IF existing_template # NoId /\ existing_template # id
             THEN [db |-> ts, exc |-> "RuntimeError", found |-> TRUE]
             ELSE LET u == template_repo_update(ts, id, body)
                  IN  [db |-> u.db, exc |-> u.exc, found |-> TRUE]

\* TemplateRepository.delete: session.delete(template) and commit.  The unit
\* of work deletes the template's compositions (section_compositions has
\* cascade="all, delete-orphan") and sets template_id to NULL on the
\* documents of the template (documents has no delete cascade; the column is
\* nullable, ON DELETE SET NULL).
template_repo_delete_keeps_compositions(ts, rows, docs, id) ==
    [templates |-> Without(ts, id), rows |-> rows, docs |-> docs]

template_repo_delete(ts, rows, docs, id) ==
    [templates |-> Without(ts, id),
     rows |-> {a \in rows : a.template_id # id},
     docs |-> [d \in DOMAIN docs |->
                 IF docs[d].template_id = id THEN [docs[d] EXCEPT !.template_id = NoId]
                 ELSE docs[d]]]

\* TemplateService.delete_template
delete_template_service(ts, rows, docs, id) ==
    IF id \notin DOMAIN ts
    THEN [templates |-> ts, rows |-> rows, docs |-> docs, found |-> FALSE]
    ELSE template_repo_delete(ts, rows, docs, id) @@ [found |-> TRUE]

\* PATCH /api/templates/<template_id>
update_template ==
    \E id \in TemplateIdRequests, body \in TemplateUpdateBodies :
        LET o == update_template_service(templates, id, body)
        IN  /\ templates' = o.db
            /\ lastT' = Answered("update_template",
                                 TemplateStatus(o.exc, IF o.found THEN 200 ELSE 404),
                                 o.exc, id, 0, FALSE, compositions)
                           @@ [template_name |-> body.template_name]
            /\ UNCHANGED <<sections, compositions, documents>>
            /\ UNCHANGED <<agentVars, reqs, substVars, audioVars, extraVars>>

\* DELETE /api/templates/<template_id>
delete_template ==
    \E id \in TemplateIdRequests :
        LET o == delete_template_service(templates, compositions, documents, id)
        IN  /\ templates' = o.templates
            /\ compositions' = o.rows
            /\ documents' = o.docs
            /\ lastT' = Answered("delete_template", IF o.found THEN 204 ELSE 404,
                                 "none", id, 0, FALSE, o.rows)
            /\ UNCHANGED sections
            /\ UNCHANGED <<agentVars, reqs, substVars, audioVars, extraVars>>

create_library_template == create_template_among(LibraryTemplateIds)

\* Templates, and the documents made from them.
NextTemplates ==
    \/ create_library_template
    \/ update_template
    \/ delete_template
    \/ create_document_request

SpecTemplates == InitDocuments /\ [][NextTemplates]_vars

\* The name the request asks for is, before the call, the name of a stored
\* template other than the request's target.
C21_NameHeld ==
    \E i \in DOMAIN templates :
        /\ templates[i].template_name = lastT'.template_name
        /\ lastT'.op = "update_template" => i # lastT'.id

C21_Step ==
    (/\ lastT'.op \in {"create_template", "update_template"}
     /\ lastT'.op = "update_template" => lastT'.id \in DOMAIN templates
     /\ C21_NameHeld)
    => (lastT'.status = 409 /\ templates' = templates)

\* C21: POST /api/templates with a template_name that a stored template has
\* is answered 409, adds no row and leaves the stored templates as they
\* were; a PATCH that renames a template to the name of another template is
\* answered 409 too and changes nothing.
C21_NameConflictIs409 == [][C21_Step]_vars

\* The parts of C21 that hold: either request leaves the templates as they
\* were, and the PATCH is answered 409.
C21_StepAsBuilt ==
    (/\ lastT'.op \in {"create_template", "update_template"}
     /\ lastT'.op = "update_template" => lastT'.id \in DOMAIN templates
     /\ C21_NameHeld)
    => (/\ templates' = templates
        /\ lastT'.status = IF lastT'.op = "update_template" THEN 409 ELSE 400)

C21_NameConflictAsBuilt == [][C21_StepAsBuilt]_vars

\* =====================================================================
\* The library: templates, sections, compositions and documents together
\* =====================================================================

\* TemplateSectionRepository.delete: session.delete(section) and commit.  The
\* unit of work deletes the section's compositions before the section
\* (TemplateSection.compositions has cascade="all, delete-orphan"), so the
\* RESTRICT of the composition's foreign key finds no row left.
template_section_repo_delete(ss, rows, s) ==
    [sections |-> Without(ss, s), rows |-> {a \in rows : a.section_id # s},
     exc |-> "none"]

\* TemplateSectionService.delete_template_section
delete_template_section_service(ss, rows, s) ==
    IF s \notin DOMAIN ss
    THEN [sections |-> ss, rows |-> rows, exc |-> "none", found |-> FALSE]
    ELSE template_section_repo_delete(ss, rows, s) @@ [found |-> TRUE]

\* DELETE /api/template-sections/<section_id>
delete_template_section ==
    \E s \in 1..(NumSections + 1) :
        LET o == delete_template_section_service(sections, compositions, s)
        IN  /\ sections' = o.sections
            /\ compositions' = o.rows
            /\ lastT' = Answered("delete_template_section",
                                 TemplateStatus(o.exc, IF o.found THEN 204 ELSE 404),
                                 o.exc, s, 0, FALSE, o.rows)
            /\ UNCHANGED <<templates, documents>>
            /\ UNCHANGED <<agentVars, reqs, substVars, audioVars, extraVars>>

\* The compositions the requests of the library ask for: section s at
\* order_index s - 1.
create_template_section_composition_in_turn ==
    \E t \in TemplateIds, s \in SectionIds :
        create_template_section_composition_of(t, s, s - 1)

NextLibrary ==
    \/ create_template_section_composition_in_turn
    \/ delete_template_section_composition
    \/ create_document_request
    \/ delete_template
    \/ delete_template_section

SpecLibrary == InitCompositions /\ [][NextLibrary]_vars

\* A composition of the section the request names is stored before the call.
C22_Referenced ==
    \E a \in compositions : a.section_id = lastT'.id

C22_Step ==
    lastT'.op = "delete_template_section" /\ C22_Referenced =>
        /\ lastT'.status = 409
        /\ sections' = sections
        /\ compositions' = compositions

\* C22: delete_template_section on a section that a composition still refers
\* to fails with a conflict and removes nothing: the section and every
\* composition that refers to it are stored afterwards as before.
C22_ReferencedSectionIsKept == [][C22_Step]_vars

\* Every composition refers to a stored template and a stored section.
C28_Integrity == CompositionForeignKeys(compositions, templates, sections)

\* What a successful delete_template leaves: no composition of the template
\* and every other composition, every document, those of the template with
\* template_id null and nothing else changed, and every section.
C28_Step ==
    lastT'.op = "delete_template" /\ lastT'.status = 204 =>
        /\ lastT'.id \in DOMAIN templates /\ lastT'.id \notin DOMAIN templates'
        /\ compositions' = {a \in compositions : a.template_id # lastT'.id}
        /\ DOMAIN documents' = DOMAIN documents
        /\ \A d \in DOMAIN documents :
              documents'[d] =
                 IF documents[d].template_id = lastT'.id
                 THEN [documents[d] EXCEPT !.template_id = NoId]
                 ELSE documents[d]
        /\ sections' = sections

\* C28: after every sequence of template, section, composition and document
\* requests every composition refers to a stored template and a stored
\* section; deleting a template removes all of its compositions and sets
\* template_id to null on every document that referred to it, and deletes
\* none of those documents and no section.
C28_ReferentialIntegrity ==
    /\ []C28_Integrity
    /\ [][C28_Step]_vars

\* C28's case: a template with a composition and a document was deleted: the
\* composition rows changed, the document is stored with template_id null,
\* and the sections are stored.
C28_Witness ==
    /\ lastT.op = "delete_template"
    /\ lastT.status = 204
    /\ ~lastT.unchanged
    /\ \E d \in DOMAIN documents : documents[d].template_id = NoId
    /\ DOMAIN sections # {}

\* What create_document leaves: without a stored template of the id asked
\* for, a 400 and the documents as they were; a new row only for a stored
\* template, with pdf_url absent and the dynamic_data of the request.
C30_Step ==
    lastT'.op = "create_document" =>
        /\ lastT'.template_id \notin DOMAIN templates
              => lastT'.status = 400 /\ documents' = documents
        /\ documents' # documents =>
              /\ lastT'.template_id \in DOMAIN templates
              /\ lastT'.status = 201
              /\ DOMAIN documents' = DOMAIN documents \cup {lastT'.id}
              /\ lastT'.id \notin DOMAIN documents
              /\ documents'[lastT'.id].pdf_url = NoId
              /\ documents'[lastT'.id].dynamic_data = lastT'.dynamic_data
              /\ \A d \in DOMAIN documents : documents'[d] = documents[d]

\* C30: create_document with a template_id of no stored template fails as a
\* validation failure (400) and stores no document; a document is stored
\* only when the template was found, and it carries no pdf_url and the
\* dynamic_data the caller gave.
C30_NoDocumentWithoutTemplate ==
    /\ [][C30_Step]_vars
    /\ [](\A d \in DOMAIN documents : documents[d].pdf_url = NoId)

\* C30's case: a create_document for an id of no stored template was answered
\* 400 while a document created earlier is stored.
C30_Witness ==
    /\ lastT.op = "create_document"
    /\ lastT.status = 400
    /\ lastT.template_id \notin DOMAIN templates
    /\ DOMAIN documents # {}
    /\ \A d \in DOMAIN documents :
          documents[d].pdf_url = NoId /\ documents[d].dynamic_data # << >>

\* =====================================================================
\* Documents: update_document
\* =====================================================================

\* The text_content values a PATCH supplies.
SuppliedTexts == { <<"h", "i">> }

\* PATCH bodies: dynamic_data, text_content and pdf_url, each present or not.
DocumentUpdateBodies ==
    {[has_data |-> hd, dynamic_data |-> IF hd THEN d ELSE << >>,
      has_text |-> ht, text_content |-> IF ht THEN x ELSE << >>,
      has_pdf |-> hp] :
        hd \in BOOLEAN, d \in DocumentDatas, ht \in BOOLEAN, x \in SuppliedTexts,
        hp \in BOOLEAN}

\* The pdf_url that a PATCH carries.
SuppliedPdfUrl == 1

\* DocumentRepository.update: setattr for every key of update_data, commit.
document_repo_update(row, update_data) ==
    [template_id |-> row.template_id,
     text_content |-> IF update_data.has_text THEN update_data.text_content
                      ELSE row.text_content,
     dynamic_data |-> IF update_data.has_data THEN update_data.dynamic_data
                      ELSE row.dynamic_data,
     pdf_url |-> IF update_data.has_pdf THEN SuppliedPdfUrl ELSE row.pdf_url]

\* DocumentService.update_document: with dynamic_data and without
\* text_content in the body, and the document's template found, the text is
\* put together again as create_document does and added to the body.
update_document(docs, ts, ss, rows, id, body) ==
    IF id \notin DOMAIN docs THEN [docs |-> docs, exc |-> "none", found |-> FALSE]
    ELSE LET t == docs[id].template_id
             update_data ==
                IF body.has_data /\ ~body.has_text /\ t \in DOMAIN ts
                THEN LET template == TemplateSchema_dump(t, ts[t])
                         combined_content ==
                            combine_sections(Get(template, "base_content", << >>),
                                             get_compositions_by_template_id(rows, t), ss)
                     IN  [body EXCEPT !.has_text = TRUE,
                                      !.text_content =
                                          replace_placeholders(combined_content,
                                                               body.dynamic_data)]
                ELSE body
         IN  [docs |-> [docs EXCEPT ![id] = document_repo_update(@, update_data)],
              exc |-> "none", found |-> TRUE]

\* PATCH /api/documents/<document_id>
update_document_request ==
    \E id \in 1..(MaxDocs + 1), body \in DocumentUpdateBodies :
        LET o == update_document(documents, templates, sections, compositions, id, body)
        IN  /\ documents' = o.docs
            /\ lastT' = Answered("update_document", IF o.found THEN 200 ELSE 404,
                                 o.exc, id, 0, FALSE, compositions)
                           @@ [body |-> body]
            /\ UNCHANGED <<templates, sections, compositions>>
            /\ UNCHANGED <<agentVars, reqs, substVars, audioVars, extraVars>>

NextRevisions ==
    \/ create_template
    \/ create_template_section
    \/ create_template_section_composition
    \/ create_document_request
    \/ update_document_request

SpecRevisions == InitDocuments /\ [][NextRevisions]_vars

\* The columns of the patched document that the body names are stored as
\* the body gives them, the others as they were.
C23_OtherFields ==
    LET id == lastT'.id
        body == lastT'.body
    IN  /\ documents'[id].dynamic_data =
              IF body.has_data THEN body.dynamic_data ELSE documents[id].dynamic_data
        /\ documents'[id].pdf_url =
              IF body.has_pdf THEN SuppliedPdfUrl ELSE documents[id].pdf_url
        /\ documents'[id].template_id = documents[id].template_id

C23_Step ==
    lastT'.op = "update_document" /\ lastT'.status = 200 =>
        LET id == lastT'.id
            body == lastT'.body
        IN  /\ C23_OtherFields
            /\ body.has_text => documents'[id].text_content = body.text_content
            /\ body.has_data /\ ~body.has_text
                  /\ documents[id].template_id \in DOMAIN templates
               => /\ documents'[id].text_content
                       = C8_Text(documents[id].template_id, body.dynamic_data)
                  /\ documents'[id].text_content
                       = C8_Text(documents'[id].template_id, documents'[id].dynamic_data)

\* C23: update_document with dynamic_data and without text_content stores
\* the text put together from the document's template (base content, the
\* composed sections' bodies in order, substitution) with the new
\* dynamic_data, along with the other patched fields; with text_content in
\* the body that text is stored as given; so after such an update the stored
\* text is the text of the template for the stored dynamic_data.
C23_UpdateReassembles == [][C23_Step]_vars

\* The parts of C23 that hold: the other fields, the supplied text stored as
\* given, and a recomputed text equal to what create_document stores for the
\* same template and data.
C23_StepAsBuilt ==
    lastT'.op = "update_document" /\ lastT'.status = 200 =>
        LET id == lastT'.id
            body == lastT'.body
        IN  /\ C23_OtherFields
            /\ body.has_text => documents'[id].text_content = body.text_content
            /\ body.has_data /\ ~body.has_text
                  /\ documents[id].template_id \in DOMAIN templates
               => documents'[id].text_content
                    = create_document(<< >>, templates, sections, compositions, 1,
                                      documents[id].template_id,
                                      body.dynamic_data).docs[1].text_content

C23_UpdateAsBuilt == [][C23_StepAsBuilt]_vars

====
